---------------------------- MODULE Spec2Model ----------------------------
(***************************************************************************)
(* A model of the spotify-tracker bots: several variants of one Discord    *)
(* bot that polls the Spotify "currently playing" endpoint and mirrors it  *)
(* into one channel message.  The variants live side by side in the        *)
(* sources; each gets its own actions (prefixed by a letter naming the     *)
(* variant) and its own specification over the shared variables.           *)
(*                                                                         *)
(*   A  src/index.js 1-248        token cache, scheduleNextUpdate loop     *)
(*   B  src/index.js 250-393      getCurrentPlayback, setInterval          *)
(*   C  src/index.js 395-614      token cache, progress cache, loop        *)
(*   D  src/index.js 616-855      startUpdating / stopUpdating             *)
(*   E  src/unnamed/part_000 1-259    updateSpotifyEmbed loop              *)
(*   F  src/unnamed/part_000 261-500  getAccessToken, updateEmbed          *)
(*   G  src/unnamed/part_001 1-268    fetchSpotifyData with 401 retry      *)
(*   H  src/unnamed/part_001 270-565  fetchSpotifyData that catches        *)
(*   I  src/unnamed/part_002          startUpdating / stopUpdating         *)
(*   K  src/unnamed/part_004          updateSpotifyStatus, lastMessageId   *)
(***************************************************************************)
EXTENDS Integers, Sequences, FiniteSets, TLC

VARIABLES
    \* ---- text normalisation (pure functions applied to drawn inputs)
    text,                   \* the string a normaliser is applied to
    res,                    \* the latest result
    prev,                   \* the result before the latest one
    applied,                \* how many times the normaliser has been applied
    fn,                     \* which normaliser is applied
    artists,                \* item.artists: the sequence of artist names
    artistText,             \* the artist text the embed shows
    renderedBy,             \* the variant whose embed shows artistText
    smartCapitalization,    \* the /smartcase switch
    \* ---- the running bot
    variant,                \* which variant of the bot runs
    now,                    \* Date.now(), in ms
    spotifyAccessToken,     \* the cached token, 0 for null / undefined
    spotifyAccessTokenExpiresAt,
    issued,                 \* refresh exchanges sent to the auth endpoint so far
    lastSpotifyData,        \* A: "null", "playing" or "paused" (is_playing)
    timers,                 \* pending setTimeout timers, each with its arguments
    connecting,             \* client.login is under way: 'ready' will be emitted
    readyListener,          \* a 'ready' listener is registered
    handler,                \* the async handlers: timer callbacks and commands
    messages,               \* ids of the messages that exist in the channel
    created,                \* messages sent so far (the last id)
    storedMessageId,        \* E, F, G: the id of the status message, 0 for null
    currentInterval,        \* E: the delay of the next timer
    lastTrackId,            \* E: the track of the last playing cycle, 0 for null
    updateInterval,         \* G: the delay of the next timer
    autoUpdates,            \* F: the /toggleupdates switch
    lastCycle,              \* A, E, F, G: an observer of the loop, what the last
                            \* completed cycle saw and the delay it armed
    stopped                 \* I: an observer, stopUpdating has returned and
                            \* startUpdating was not called since

normVars == <<text, res, prev, applied, fn>>
artistVars == <<artists, artistText, renderedBy, smartCapitalization>>
pureVars == <<normVars, artistVars>>
tokenVars == <<spotifyAccessToken, spotifyAccessTokenExpiresAt, issued>>
loopVars == <<timers, connecting, readyListener>>
discordVars == <<messages, created>>
schedVars == <<storedMessageId, currentInterval, lastTrackId, updateInterval,
              autoUpdates, lastCycle, stopped>>
botVars == <<variant, now, tokenVars, lastSpotifyData, loopVars, handler,
             discordVars, schedVars>>
\* what variant A never writes
notA == <<pureVars, storedMessageId, currentInterval, lastTrackId, updateInterval,
          autoUpdates, stopped>>
\* what variant G never writes
notG == <<pureVars, now, spotifyAccessTokenExpiresAt, issued, lastSpotifyData,
          readyListener, currentInterval, lastTrackId, autoUpdates, stopped>>
\* what variant F never writes
notF == <<pureVars, now, tokenVars, lastSpotifyData, loopVars, currentInterval,
          lastTrackId, updateInterval, stopped>>
\* what variants D and I never write
notI == <<pureVars, now, tokenVars, lastSpotifyData, currentInterval,
          lastTrackId, autoUpdates, lastCycle>>
\* what variant H never writes
notH == <<pureVars, currentInterval, lastTrackId, updateInterval, autoUpdates,
          lastCycle, stopped>>
\* what variant K never writes
notK == <<pureVars, now, tokenVars, lastSpotifyData, readyListener,
          currentInterval, lastTrackId, updateInterval, autoUpdates, lastCycle,
          stopped>>
\* what variant B never writes
notB == <<pureVars, now, tokenVars, lastSpotifyData, readyListener, schedVars>>
\* what variant C never writes
notC == <<pureVars, schedVars>>
\* what variant E never writes
notE == <<pureVars, now, tokenVars, lastSpotifyData, updateInterval, autoUpdates,
          stopped>>
vars == <<pureVars, botVars>>

-----------------------------------------------------------------------------
(* Bounds of the model *)

\* longest string drawn as input of a normaliser
MaxLen == 3
\* longest artist name and longest artist list drawn
MaxNameLen == 2
MaxArtists == 2
\* the clock stops here
MaxNow == 1800
\* refresh exchanges the auth endpoint is sent at most
MaxExchanges == 2
\* messages the bot sends at most
MaxMessages == 2
\* 401 answers followed within one call of G's fetchSpotifyData at most
MaxRetries == 2
\* loops (a pending timer or a cycle each) started by 'ready' events at most
\* interval timers that may be active at a time
MaxIntervals == 2
\* consecutive failed cycles counted by the observer of variant E
MaxFails == 3
\* numerator and denominator of the growth factors tried for a backoff
MaxFactorTerm == 6
MaxChains == 2

-----------------------------------------------------------------------------
(* Characters are UTF-16 code units, strings are sequences of them.        *)
(* 65 'A', 97 'a', 49 '1', 201 'E-acute capital', 233 'e-acute small',     *)
(* 44 ',', 32 ' '.                                                         *)

Alphabet == {65, 97, 49, 201, 233}
NameAlphabet == {65, 97, 201}

Strings(alpha, n) == UNION {[1..k -> alpha] : k \in 0..n}

\* String.prototype.toUpperCase / toLowerCase on one code unit: the ASCII
\* letters and the Latin-1 letters (U+00C0..U+00DE / U+00E0..U+00FE, without
\* the two signs U+00D7 and U+00F7) change case, everything else is kept.
IsUpperChar(c) == c \in 65..90 \/ (c \in 192..222 /\ c # 215)
IsLowerChar(c) == c \in 97..122 \/ (c \in 224..254 /\ c # 247)
IsLetterChar(c) == IsUpperChar(c) \/ IsLowerChar(c)
\* a faulty case mapping: bit 5 is flipped on every letter, so that a
\* lower-case letter comes out upper-case
toggleCaseChar(c) ==
    IF IsUpperChar(c) THEN c + 32 ELSE IF IsLowerChar(c) THEN c - 32 ELSE c
toLowerCaseChar(c) == IF IsUpperChar(c) THEN c + 32 ELSE c
toUpperCaseChar(c) == IF IsLowerChar(c) THEN c - 32 ELSE c

toLowerCase(s) == [i \in DOMAIN s |-> toLowerCaseChar(s[i])]
toUpperCase(s) == [i \in DOMAIN s |-> toUpperCaseChar(s[i])]

\* the class [A-Za-z] of the regular expression
IsAsciiLetter(c) == c \in 65..90 \/ c \in 97..122

\* str.replace(/[^A-Za-z]/g, "")
AsciiLetters(s) == SelectSeq(s, IsAsciiLetter)

\* smartLowercase(str)
smartLowercase(str) ==
    IF str = <<>> THEN <<>>
    ELSE LET letters == AsciiLetters(str)
         IN  IF letters # <<>> /\ letters = toUpperCase(letters)
                THEN str
                ELSE toLowerCase(str)

\* smartCase(text)
smartCase(t) ==
    IF t = <<>> THEN t
    ELSE IF t = toUpperCase(t) THEN t
    ELSE toLowerCase(t)

\* Array.prototype.join(", ")
RECURSIVE Join(_)
Join(names) ==
    IF names = <<>> THEN <<>>
    ELSE IF Len(names) = 1 THEN names[1]
    ELSE names[1] \o <<44, 32>> \o Join(Tail(names))

\* smartCap(str) of variant E
smartCap(str) == IF smartCapitalization THEN smartLowercase(str) ELSE str

\* E: embedData.artistName
E_artistName(as) == smartCap(Join(as))

\* G: const artist = smartCapitalization ? smartLowercase(join) : join
G_artist(as) ==
    IF smartCapitalization THEN smartLowercase(Join(as)) ELSE Join(as)

\* A: data.artist is the joined list, createEmbed shows smartCase(data.artist)
A_artist(as) == smartCase(Join(as))

-----------------------------------------------------------------------------
(* Specification SpecNorm: a normaliser applied, and applied again, to a   *)
(* drawn string.                                                           *)

NormIdle == /\ text = <<>> /\ res = <<>> /\ prev = <<>>
            /\ applied = 0 /\ fn = "none"
ArtistIdle == /\ artists = <<>> /\ artistText = <<>> /\ renderedBy = "none"
              /\ smartCapitalization = TRUE

\* the async handlers that may be under way at the same time: each slot holds
\* one timer callback (a cycle) or one command handler
Slots == {1, 2}

\* an idle slot (by: the user who invoked an owner-only command)
Idle == [pc |-> "idle", kind |-> "none", xid |-> 0, tok |-> 0,
         http |-> 0, data |-> "none", arg |-> 0, retries |-> 0, obs |-> "none",
         by |-> "none"]

\* no cycle has completed: the delay in force is the initial currentInterval
NoCycle == [obs |-> "none", failed |-> FALSE, before |-> 5000, delay |-> 5000,
            fails |-> 0]

\* no bot runs
BotIdle ==
    /\ variant = "none" /\ now = 0
    /\ spotifyAccessToken = 0 /\ spotifyAccessTokenExpiresAt = 0 /\ issued = 0
    /\ lastSpotifyData = "null"
    /\ timers = <<>> /\ connecting = FALSE /\ readyListener = FALSE
    /\ handler = [s \in Slots |-> Idle]
    /\ messages = {} /\ created = 0
    /\ storedMessageId = 0 /\ currentInterval = 0 /\ lastTrackId = 0
    /\ updateInterval = 0 /\ autoUpdates = TRUE /\ lastCycle = NoCycle
    /\ stopped = FALSE

InitNorm ==
    /\ text \in Strings(Alphabet, MaxLen)
    /\ res = <<>> /\ prev = <<>>
    /\ applied = 0
    /\ fn \in {"smartLowercase", "smartCase"}
    /\ ArtistIdle
    /\ BotIdle

Normalise(s) == IF fn = "smartLowercase" THEN smartLowercase(s) ELSE smartCase(s)

\* the first application, to the input
ApplyFirst ==
    /\ applied = 0
    /\ res' = Normalise(text)
    /\ prev' = text
    /\ applied' = 1
    /\ UNCHANGED <<text, fn, artistVars, botVars>>

\* the normaliser re-applied to its own output
ApplyAgain ==
    /\ applied = 1
    /\ res' = Normalise(res)
    /\ prev' = res
    /\ applied' = 2
    /\ UNCHANGED <<text, fn, artistVars, botVars>>

NextNorm == ApplyFirst \/ ApplyAgain

SpecNorm == InitNorm /\ [][NextNorm]_vars

-----------------------------------------------------------------------------
(* Specification SpecArtists: the artist text of the embed, rendered from  *)
(* a drawn list of artist names.                                           *)

ArtistNames == Strings(NameAlphabet, MaxNameLen) \ {<<>>}

InitArtists ==
    /\ artists \in UNION {[1..k -> ArtistNames] : k \in 1..MaxArtists}
    /\ artistText = <<>>
    /\ renderedBy = "none"
    /\ smartCapitalization = TRUE
    /\ NormIdle
    /\ BotIdle

\* E: updateSpotifyEmbed builds embedData
E_RenderArtists ==
    /\ artistText' = E_artistName(artists)
    /\ renderedBy' = "E"
    /\ UNCHANGED <<artists, smartCapitalization, normVars, botVars>>

\* G: fetchSpotifyData builds the info object
G_RenderArtists ==
    /\ artistText' = G_artist(artists)
    /\ renderedBy' = "G"
    /\ UNCHANGED <<artists, smartCapitalization, normVars, botVars>>

\* A: fetchSpotifyData joins, createEmbed normalises
A_RenderArtists ==
    /\ artistText' = A_artist(artists)
    /\ renderedBy' = "A"
    /\ UNCHANGED <<artists, smartCapitalization, normVars, botVars>>

\* the /smartcase command (E, G); the embed is rendered anew by the next cycle
Smartcase(mode) ==
    /\ smartCapitalization' = (mode = "on")
    /\ artistText' = <<>>
    /\ renderedBy' = "none"
    /\ UNCHANGED <<artists, normVars, botVars>>

NextArtists ==
    \/ E_RenderArtists
    \/ G_RenderArtists
    \/ A_RenderArtists
    \/ \E mode \in {"on", "off"} : Smartcase(mode)

SpecArtists == InitArtists /\ [][NextArtists]_vars

-----------------------------------------------------------------------------
(* Claims about the normalisation *)

\* the first result of the normaliser on text
FirstResult == IF applied = 1 THEN res ELSE prev

\* every letter of s is an upper-case letter (non-letters are ignored)
AllLettersUpper(s) == \A i \in DOMAIN s : IsLetterChar(s[i]) => IsUpperChar(s[i])

\* what the rule of the specification yields on s
RuleResult(s) == IF AllLettersUpper(s) THEN s ELSE toLowerCase(s)

\* C6: smartLowercase(s) is s when all letters of s are upper-case and
\* lowercase(s) for every other string.
C6_SmartLowercaseRule ==
    (applied >= 1 /\ fn = "smartLowercase") => FirstResult = RuleResult(text)

\* C7: the normalisation is idempotent: applied to its own output, smartLowercase
\* (and smartCase) returns that output unchanged.
C7_Idempotent == applied = 2 => res = prev

\* C7 witness: a string the first application changed, normalised twice.
C7_Witness == applied = 2 /\ prev # text /\ fn = "smartLowercase"

\* each name normalised on its own, then joined
PerNameText(as) == Join([i \in DOMAIN as |-> smartLowercase(as[i])])

\* C8: the artist text shown equals the comma-joined list of each artist name
\* normalised on its own.
C8_PerArtistNormalised ==
    (renderedBy \in {"E", "G"} /\ smartCapitalization)
        => artistText = PerNameText(artists)

-----------------------------------------------------------------------------
(* Variant A (src/index.js 1-248): a cached token with an expiry, and a    *)
(* loop that re-arms its timer when a cycle has completed.                 *)

\* the steps of the clock, and the expires_in values of a refresh response
\* (0: the field is missing)
TickSteps == {900}
ExpiresInValues == {0, 1}

\* (data.expires_in || 3600)
DefaultExpiresIn == 3600

\* Date.now() + (data.expires_in || 3600) * 1000 * 0.9
A_ExpiresAt(t, e) == t + ((IF e = 0 THEN DefaultExpiresIn ELSE e) * 1000 * 9) \div 10

\* a refresh that stores the token and leaves the expiry as it was
A_storeTokenOnly(tok, e) ==
    /\ spotifyAccessToken' = tok
    /\ UNCHANGED spotifyAccessTokenExpiresAt

\* spotifyAccessToken = data.access_token; spotifyAccessTokenExpiresAt = ...:
\* two assignments with no await between them
A_storeToken(tok, e) ==
    /\ spotifyAccessToken' = tok
    /\ spotifyAccessTokenExpiresAt' = A_ExpiresAt(now, e)

\* !spotifyAccessToken || Date.now() > spotifyAccessTokenExpiresAt
A_TokenStale == spotifyAccessToken = 0 \/ now > spotifyAccessTokenExpiresAt

\* lastSpotifyData && lastSpotifyData.is_playing ? 5000 : 30000
A_Interval(lsd) == IF lsd = "playing" THEN 5000 ELSE 30000

\* scheduleNextUpdate(channel, messageId) with lastSpotifyData = lsd
A_scheduleNextUpdate(messageId, lsd) ==
    timers' = Append(timers, [messageId |-> messageId, delay |-> A_Interval(lsd)])

\* a faulty callback: scheduleNextUpdate(channel, newMessageId), without
\* the fallback to the id the cycle received
A_CycleDoneDropsId(s, ret, lsd, seen, failed) ==
    /\ A_scheduleNextUpdate(ret, lsd)
    /\ handler' = [handler EXCEPT ![s] = Idle]
    /\ lastSpotifyData' = lsd
    /\ lastCycle' = [NoCycle EXCEPT !.obs = seen, !.failed = failed,
                                    !.delay = A_Interval(lsd)]

\* the timer callback after updateSpotifyMessage has returned ret
\* (0: undefined); the observer notes, until the next cycle begins, what the
\* cycle saw (seen) and whether it ended in the catch (failed)
A_CycleDone(s, ret, lsd, seen, failed) ==
    /\ A_scheduleNextUpdate(IF ret # 0 THEN ret ELSE handler[s].arg, lsd)
    /\ handler' = [handler EXCEPT ![s] = Idle]
    /\ lastSpotifyData' = lsd
    /\ lastCycle' = [NoCycle EXCEPT !.obs = seen, !.failed = failed,
                                    !.delay = A_Interval(lsd)]

\* a command handler has ended
A_CmdDone(s) == handler' = [handler EXCEPT ![s] = Idle]

\* /pause, /skip, /stop: interaction.reply with the content of the try ("sent")
\* or of the catch ("failed"); call notes what became of the control call
\* ("ok", "failed", or "none" when it was never made)
A_Reply(s, content, call) ==
    handler' = [handler EXCEPT ![s] =
        [Idle EXCEPT !.pc = "reply", !.kind = "control", !.data = content,
                     !.obs = call]]

\* the users who send commands: the owner and someone else
Users == {"owner", "other"}

\* process.env.OWNER_ID
OWNER_ID == "owner"

\* a faulty check: everyone passes
A_AnyoneIsOwner(user) == TRUE

\* interaction.user.id !== OWNER_ID, negated
A_IsOwner(user) == user = OWNER_ID

\* return interaction.reply({ content: "You do not have permission to use
\* this command." }): the only step of command k sent by user
A_Deny(s, k, user) ==
    handler' = [handler EXCEPT ![s] =
        [Idle EXCEPT !.pc = "reply", !.kind = k, !.data = "denied", !.by = user]]

\* getSpotifyAccessToken() called by handler s of kind k with argument a, for
\* a command sent by user ("none" for the loop and the open command): the
\* handler goes on with the cached token or waits for its refresh exchange
A_getSpotifyAccessToken(s, k, a, user) ==
    IF A_TokenStale
    THEN /\ issued < MaxExchanges
         /\ issued' = issued + 1
         /\ handler' = [handler EXCEPT ![s] =
                [Idle EXCEPT !.pc = "token", !.kind = k, !.xid = issued + 1,
                             !.arg = a,
                             !.by = user]]
    ELSE /\ issued' = issued
         /\ handler' = [handler EXCEPT ![s] =
                [Idle EXCEPT !.pc = IF k = "control" THEN "control" ELSE "status",
                             !.kind = k, !.tok = spotifyAccessToken, !.arg = a,
                             !.by = user]]

InitA ==
    /\ variant = "A" /\ now = 0
    /\ spotifyAccessToken = 0 /\ spotifyAccessTokenExpiresAt = 0 /\ issued = 0
    /\ lastSpotifyData = "null"
    /\ timers = <<>> /\ connecting = TRUE /\ readyListener = TRUE
    /\ handler = [s \in Slots |-> Idle]
    /\ messages = {} /\ created = 0
    /\ storedMessageId = 0 /\ currentInterval = 0 /\ lastTrackId = 0
    /\ updateInterval = 0 /\ autoUpdates = TRUE /\ lastCycle = NoCycle
    /\ stopped = FALSE
    /\ NormIdle /\ ArtistIdle

\* the slot a new handler takes: the lowest idle one (0: none is idle)
FreeSlot ==
    IF \E s \in Slots : handler[s].pc = "idle"
    THEN CHOOSE s \in Slots :
            /\ handler[s].pc = "idle"
            /\ \A t \in Slots : handler[t].pc = "idle" => s <= t
    ELSE 0

\* the cycles in flight
Cycles == {s \in Slots : handler[s].kind = "cycle"}

\* time passes
Tick ==
    /\ \E d \in TickSteps : now + d <= MaxNow /\ now' = now + d
    /\ UNCHANGED <<variant, tokenVars, lastSpotifyData, loopVars, handler,
                   discordVars, schedVars, pureVars>>

\* someone deletes a message of the channel
DeleteMessage ==
    /\ \E m \in messages : messages' = messages \ {m}
    /\ UNCHANGED <<variant, now, tokenVars, lastSpotifyData, loopVars, handler,
                   created, schedVars, pureVars>>

\* client.once("ready"): registerCommands, channels.fetch, scheduleNextUpdate;
\* when registerCommands or the channel fetch fails the loop is never started
A_Ready ==
    /\ variant = "A" /\ connecting
    /\ connecting' = FALSE
    /\ readyListener' = FALSE
    /\ \/ readyListener /\ A_scheduleNextUpdate(0, lastSpotifyData)
       \/ UNCHANGED timers
    /\ UNCHANGED <<variant, now, tokenVars, lastSpotifyData, handler,
                   discordVars, lastCycle, notA>>

\* a timer fires: its callback calls updateSpotifyMessage(channel, messageId),
\* which calls fetchSpotifyData, which calls getSpotifyAccessToken
A_TimerFires(s) ==
    /\ variant = "A" /\ s = FreeSlot
    /\ \E i \in DOMAIN timers :
          /\ timers' = SubSeq(timers, 1, i - 1) \o SubSeq(timers, i + 1, Len(timers))
          /\ A_getSpotifyAccessToken(s, "cycle", timers[i].messageId, "none")
    /\ lastCycle' = NoCycle
    /\ UNCHANGED <<variant, now, spotifyAccessToken, spotifyAccessTokenExpiresAt,
                   lastSpotifyData, connecting, readyListener, discordVars, notA>>

\* /spotifystatus (anyone): fetchSpotifyData; /pause, /skip, /stop: after the
\* owner check, spotifyControl; both start with getSpotifyAccessToken
A_Command(s, k, user) ==
    /\ variant = "A" /\ s = FreeSlot /\ ~connecting
    /\ k \in {"spotifystatus", "control"}
    /\ IF k = "control" /\ ~A_IsOwner(user)
       THEN A_Deny(s, k, user) /\ issued' = issued
       ELSE A_getSpotifyAccessToken(s, k, 0, IF k = "control" THEN user ELSE "none")
    /\ UNCHANGED <<variant, now, spotifyAccessToken, spotifyAccessTokenExpiresAt,
                   lastSpotifyData, loopVars, discordVars, lastCycle, notA>>

\* /getspotifytoken: after the owner check, if (!spotifyAccessToken) await
\* refreshSpotifyToken(); then the token is replied
A_GetSpotifyToken(s, user) ==
    /\ variant = "A" /\ s = FreeSlot /\ ~connecting
    /\ IF ~A_IsOwner(user)
       THEN A_Deny(s, "getspotifytoken", user) /\ issued' = issued
       ELSE IF spotifyAccessToken = 0
       THEN /\ issued < MaxExchanges
            /\ issued' = issued + 1
            /\ handler' = [handler EXCEPT ![s] =
                   [Idle EXCEPT !.pc = "token", !.kind = "getspotifytoken",
                                !.xid = issued + 1, !.by = user]]
       ELSE /\ issued' = issued
            /\ A_CmdDone(s)
    /\ UNCHANGED <<variant, now, spotifyAccessToken, spotifyAccessTokenExpiresAt,
                   lastSpotifyData, loopVars, discordVars, lastCycle, notA>>

\* refreshSpotifyToken: the exchange is answered with a token; the token and
\* its expiry are stored and the caller goes on with the token
A_RefreshOk(s, e) ==
    /\ variant = "A" /\ handler[s].pc = "token"
    /\ A_storeToken(handler[s].xid, e)
    /\ IF handler[s].kind = "getspotifytoken"
       THEN A_CmdDone(s)
       ELSE handler' = [handler EXCEPT ![s] =
                [@ EXCEPT !.pc = IF handler[s].kind = "control"
                                   THEN "control" ELSE "status",
                          !.tok = handler[s].xid, !.xid = 0]]
    /\ UNCHANGED <<variant, now, issued, lastSpotifyData, loopVars,
                   discordVars, lastCycle, notA>>

\* refreshSpotifyToken throws: the response is not ok, or the request failed.
\* updateSpotifyMessage catches and returns undefined, the control commands
\* catch and reply, the other commands end with an unhandled rejection
A_RefreshRejected(s) ==
    /\ variant = "A" /\ handler[s].pc = "token"
    /\ IF handler[s].kind = "cycle"
       THEN A_CycleDone(s, 0, lastSpotifyData, "none", TRUE)
       ELSE /\ IF handler[s].kind = "control"
               THEN A_Reply(s, "failed", "none")
               ELSE A_CmdDone(s)
            /\ UNCHANGED <<timers, lastSpotifyData, lastCycle>>
    /\ UNCHANGED <<variant, now, tokenVars, connecting, readyListener,
                   discordVars, notA>>

\* the answers of the status endpoint: 204, a non-ok status (or no answer at
\* all), a body without item, a track playing, a track paused
StatusAnswers == {"204", "error", "noitem", "playing", "paused"}

\* fetchSpotifyData from the answer on, in a cycle: null goes to the idle
\* branch, a track is stored in lastSpotifyData and reconciled
A_CycleStatus(s, r) ==
    /\ variant = "A" /\ handler[s].pc = "status" /\ handler[s].kind = "cycle"
    /\ r \in StatusAnswers
    /\ IF r = "error" THEN A_CycleDone(s, 0, lastSpotifyData, "none", TRUE)
       ELSE IF r \in {"204", "noitem"}
       THEN IF handler[s].arg # 0
            THEN /\ handler' = [handler EXCEPT ![s] =
                        [@ EXCEPT !.pc = "msgFetch", !.data = "null", !.tok = 0]]
                 /\ UNCHANGED <<timers, lastSpotifyData, lastCycle>>
            ELSE A_CycleDone(s, 0, lastSpotifyData, "idle", FALSE)
       ELSE /\ lastSpotifyData' = r
            /\ handler' = [handler EXCEPT ![s] =
                   [@ EXCEPT !.pc = IF handler[s].arg # 0 THEN "msgFetch"
                                                          ELSE "msgSend",
                             !.data = "track", !.tok = 0]]
            /\ UNCHANGED <<timers, lastCycle>>
    /\ UNCHANGED <<variant, now, tokenVars, connecting, readyListener,
                   discordVars, notA>>

\* channel.messages.fetch(messageId).catch(() => null): the message, or null
\* when it is gone or the request failed
A_MsgFetched(s, found) ==
    /\ variant = "A" /\ handler[s].pc = "msgFetch"
    /\ found \in BOOLEAN
    /\ found => handler[s].arg \in messages
    /\ IF found
       THEN /\ handler' = [handler EXCEPT ![s] = [@ EXCEPT !.pc = "msgEdit"]]
            /\ UNCHANGED <<timers, lastSpotifyData, lastCycle>>
       ELSE IF handler[s].data = "null"
       THEN A_CycleDone(s, 0, lastSpotifyData, "idle", FALSE)
       ELSE /\ handler' = [handler EXCEPT ![s] = [@ EXCEPT !.pc = "msgSend"]]
            /\ UNCHANGED <<timers, lastSpotifyData, lastCycle>>
    /\ UNCHANGED <<variant, now, tokenVars, connecting, readyListener,
                   discordVars, notA>>

\* msg.edit(...) has ended: updateSpotifyMessage returns msg.id for a track,
\* undefined for idle and when the edit threw
A_MsgEdited(s, ok) ==
    /\ variant = "A" /\ handler[s].pc = "msgEdit"
    /\ ok \in BOOLEAN
    /\ ok => handler[s].arg \in messages
    /\ A_CycleDone(s, IF ok /\ handler[s].data # "null" THEN handler[s].arg ELSE 0,
                   lastSpotifyData,
                   IF handler[s].data = "null" THEN "idle" ELSE "track", ~ok)
    /\ UNCHANGED <<variant, now, tokenVars, connecting, readyListener,
                   discordVars, notA>>

\* channel.send(...) has ended: a new message and its id, or an error
A_MsgSent(s, ok) ==
    /\ variant = "A" /\ handler[s].pc = "msgSend"
    /\ ok \in BOOLEAN
    /\ IF ok
       THEN /\ created < MaxMessages
            /\ created' = created + 1
            /\ messages' = messages \cup {created + 1}
            /\ A_CycleDone(s, created + 1, lastSpotifyData, "track", FALSE)
       ELSE /\ UNCHANGED discordVars
            /\ A_CycleDone(s, 0, lastSpotifyData, "track", TRUE)
    /\ UNCHANGED <<variant, now, tokenVars, connecting, readyListener, notA>>

\* /spotifystatus: the answer of the status endpoint is replied as an embed;
\* a failed fetch ends the handler without a reply
A_StatusReplied(s, r) ==
    /\ variant = "A" /\ handler[s].pc = "status"
    /\ handler[s].kind = "spotifystatus"
    /\ r \in StatusAnswers
    /\ A_CmdDone(s)
    /\ UNCHANGED <<variant, now, tokenVars, lastSpotifyData, loopVars,
                   discordVars, lastCycle, notA>>

\* spotifyControl: the control call is answered; ok, and the try goes on to
\* reply that the command was sent; not ok, and spotifyControl throws into
\* the catch, which replies that it failed
A_ControlAnswered(s, ok) ==
    /\ variant = "A" /\ handler[s].pc = "control"
    /\ ok \in BOOLEAN
    /\ A_Reply(s, IF ok THEN "sent" ELSE "failed", IF ok THEN "ok" ELSE "failed")
    /\ UNCHANGED <<variant, now, tokenVars, lastSpotifyData, loopVars,
                   discordVars, lastCycle, notA>>

\* interaction.reply has ended: delivered, and the handler ends; or rejected,
\* which inside the try throws into the catch (a second reply, that the
\* command failed) and inside the catch ends the handler
A_ControlReplied(s, ok) ==
    /\ variant = "A" /\ handler[s].pc = "reply"
    /\ ok \in BOOLEAN
    /\ IF ~ok /\ handler[s].data = "sent"
       THEN A_Reply(s, "failed", handler[s].obs)
       ELSE A_CmdDone(s)
    /\ UNCHANGED <<variant, now, tokenVars, lastSpotifyData, loopVars,
                   discordVars, lastCycle, notA>>

\* /reloadcommands and /clearcommands: after the owner check, rest.put with
\* an empty body
A_ManageCommands(s, k, user) ==
    /\ variant = "A" /\ s = FreeSlot /\ ~connecting
    /\ k \in {"reloadcommands", "clearcommands"}
    /\ IF ~A_IsOwner(user)
       THEN A_Deny(s, k, user)
       ELSE handler' = [handler EXCEPT ![s] =
                [Idle EXCEPT !.pc = "put", !.kind = k, !.data = "clear",
                             !.by = user]]
    /\ UNCHANGED <<variant, now, tokenVars, lastSpotifyData, loopVars,
                   discordVars, lastCycle, notA>>

\* rest.put has ended: after the empty body /clearcommands replies and
\* /reloadcommands puts the commands again, then replies; an error ends the
\* handler with an unhandled rejection
A_CommandsPut(s, ok) ==
    /\ variant = "A" /\ handler[s].pc = "put"
    /\ ok \in BOOLEAN
    /\ handler' = [handler EXCEPT ![s] =
            IF ~ok THEN Idle
            ELSE IF handler[s].kind = "reloadcommands" /\ handler[s].data = "clear"
            THEN [@ EXCEPT !.data = "register"]
            ELSE [@ EXCEPT !.pc = "reply",
                           !.data = IF handler[s].kind = "clearcommands"
                                    THEN "cleared" ELSE "reloaded"]]
    /\ UNCHANGED <<variant, now, tokenVars, lastSpotifyData, loopVars,
                   discordVars, lastCycle, notA>>

\* time passes; someone deletes a message of the channel
A_Tick == variant = "A" /\ Tick
A_DeleteMessage == variant = "A" /\ DeleteMessage

NextA ==
    \/ A_Tick
    \/ A_DeleteMessage
    \/ A_Ready
    \/ \E s \in Slots : A_TimerFires(s)
    \/ \E s \in Slots, k \in {"spotifystatus", "control"} : A_Command(s, k, OWNER_ID)
    \/ \E s \in Slots : A_GetSpotifyToken(s, OWNER_ID)
    \/ \E s \in Slots, e \in ExpiresInValues : A_RefreshOk(s, e)
    \/ \E s \in Slots : A_RefreshRejected(s)
    \/ \E s \in Slots, r \in StatusAnswers : A_CycleStatus(s, r)
    \/ \E s \in Slots, found \in BOOLEAN : A_MsgFetched(s, found)
    \/ \E s \in Slots, ok \in BOOLEAN : A_MsgEdited(s, ok)
    \/ \E s \in Slots, ok \in BOOLEAN : A_MsgSent(s, ok)
    \/ \E s \in Slots, r \in StatusAnswers : A_StatusReplied(s, r)
    \/ \E s \in Slots, ok \in BOOLEAN : A_ControlAnswered(s, ok)
    \/ \E s \in Slots, ok \in BOOLEAN : A_ControlReplied(s, ok)

SpecA == InitA /\ [][NextA]_vars

\* The interactionCreate handler of variant A with the commands sent by any
\* user, the owner or not, and with the commands that manage the registered
\* commands; the handlers run side by side and share the token cache, the
\* timer that 'ready' arms is left to itself
NextAUsers ==
    \/ A_Tick
    \/ A_Ready
    \/ \E s \in Slots : A_Command(s, "spotifystatus", OWNER_ID)
    \/ \E s \in Slots, user \in Users : A_Command(s, "control", user)
    \/ \E s \in Slots, user \in Users : A_GetSpotifyToken(s, user)
    \/ \E s \in Slots, k \in {"reloadcommands", "clearcommands"}, user \in Users :
          A_ManageCommands(s, k, user)
    \/ \E s \in Slots, ok \in BOOLEAN : A_CommandsPut(s, ok)
    \/ \E s \in Slots, e \in ExpiresInValues : A_RefreshOk(s, e)
    \/ \E s \in Slots : A_RefreshRejected(s)
    \/ \E s \in Slots, r \in StatusAnswers : A_StatusReplied(s, r)
    \/ \E s \in Slots, ok \in BOOLEAN : A_ControlAnswered(s, ok)
    \/ \E s \in Slots, ok \in BOOLEAN : A_ControlReplied(s, ok)

SpecAUsers == InitA /\ [][NextAUsers]_vars

\* The loop of variant A with what the program itself guarantees: 'ready' is
\* emitted and an armed timer fires. The answers of the remote services are
\* steps of the services: no call of fetch, messages.fetch, edit or send is
\* given a timeout or an abort signal, so nothing obliges a pending call to end.
A_Fairness ==
    /\ WF_vars(A_Ready)
    /\ WF_vars(\E s \in Slots : A_TimerFires(s))

SpecALive == SpecA /\ A_Fairness

\* C31: a cycle whose network call never receives a response still completes
\* after a bounded wait and the next cycle is armed: a cycle in flight leads
\* to an armed timer whatever the remote services do.
C31_NeverStalls == (Cycles # {}) ~> (timers # <<>>)

\* the message id the timer armed last carries to the next cycle
A_CarriedId == timers[Len(timers)].messageId

\* C37: the message id scheduleNextUpdate carries from one cycle to the next
\* changes only when the cycle has created a message: a cycle that fails or
\* observes Idle passes on the id it received, and an id that is set never
\* reverts to null.
C37_CarriedIdFrame ==
    [][\A s \in Slots :
        (handler[s].kind = "cycle" /\ handler'[s].pc = "idle") =>
          /\ timers' # <<>>
          /\ A_CarriedId' # handler[s].arg
               => (created' = created + 1 /\ A_CarriedId' = created')
          /\ (lastCycle'.failed \/ lastCycle'.obs = "idle")
               => A_CarriedId' = handler[s].arg
          /\ handler[s].arg # 0 => A_CarriedId' # 0
      ]_vars

\* C37 witness: a cycle that received the id of the message saw a track and
\* failed (its edit or its send threw), and has armed the next cycle with
\* the same id.
C37_Witness ==
    /\ lastCycle.obs = "track" /\ lastCycle.failed
    /\ Len(timers) = 1 /\ timers[1].messageId = 1 /\ created = 1
    /\ Cycles = {}

\* the reply that is the whole of a denied command
A_Denied(h) ==
    /\ h.kind \in {"control", "getspotifytoken", "reloadcommands", "clearcommands"}
    /\ h = [Idle EXCEPT !.pc = "reply", !.kind = h.kind, !.data = "denied",
                        !.by = h.by]

\* C38: a /pause, /skip, /stop, /getspotifytoken, /reloadcommands or
\* /clearcommands sent by a user other than OWNER_ID sends no control call
\* and no refresh exchange, puts no commands and replies no token: its
\* handler does nothing but the permission-denied reply, and no variable of
\* the bot changes with it.
C38_NonOwnerDenied ==
    [][\A s \in Slots :
        /\ (handler'[s].by \notin {"none", OWNER_ID}) => A_Denied(handler'[s])
        /\ (handler[s].by \notin {"none", OWNER_ID})
             => handler'[s] \in {handler[s], Idle}
        /\ ( /\ handler'[s] # handler[s]
             /\ \/ handler[s].by \notin {"none", OWNER_ID}
                \/ handler'[s].by \notin {"none", OWNER_ID} )
             => UNCHANGED <<tokenVars, lastSpotifyData, timers, discordVars>>
      ]_vars

\* C38 witness: a token is cached and the handler of a /getspotifytoken sent
\* by another user than the owner has replied that permission is denied.
C38_Witness ==
    /\ spotifyAccessToken # 0
    /\ \E s \in Slots :
          /\ handler[s].kind = "getspotifytoken" /\ handler[s].by = "other"
          /\ handler[s].pc = "reply" /\ handler[s].data = "denied"

-----------------------------------------------------------------------------
(* Claims about the token cache of variant A *)

\* the handlers that wait for the answer to a refresh exchange
Refreshing == {s \in Slots : handler[s].pc = "token"}

\* C1: the refresh is coalesced: while one refresh exchange is in flight no
\* second exchange is sent, the later callers wait for the first one's result.
C1_OneExchangeInFlight == Cardinality(Refreshing) <= 1

\* handler s calls getSpotifyAccessToken in this step
CallsGetToken(s) ==
    /\ handler[s].pc = "idle"
    /\ handler'[s].pc # "idle"
    /\ handler'[s].kind # "getspotifytoken"

\* C2: a call of getSpotifyAccessToken sends a refresh exchange if and only if
\* no token is cached or the cached one is expired, that is, the call is not
\* made before the stored expiry (now >= expiresAt); a successful refresh
\* stores the token it returns, and a call made before the stored expiry
\* returns the cached token and sends no exchange.
C2_RefreshIffStale ==
    [][\A s \in Slots :
        /\ CallsGetToken(s) =>
             /\ (handler'[s].pc = "token" /\ issued' = issued + 1)
                  <=> (spotifyAccessToken = 0 \/ now >= spotifyAccessTokenExpiresAt)
             /\ (spotifyAccessToken # 0 /\ now < spotifyAccessTokenExpiresAt)
                  => /\ issued' = issued
                     /\ handler'[s].pc \in {"status", "control"}
                     /\ handler'[s].tok = spotifyAccessToken
        /\ (handler[s].pc = "token" /\ handler'[s].tok # 0)
             => /\ spotifyAccessToken' = handler'[s].tok
                /\ spotifyAccessTokenExpiresAt' > now
      ]_vars

\* C13: a cycle that has observed Idle (fetchSpotifyData returned null) arms
\* the next cycle with the idle interval of 30000 ms, whatever the cycles
\* before it observed.
C13_IdleArmsIdleInterval ==
    [][\A s \in Slots :
        (handler[s].kind = "cycle" /\ handler[s].data = "null"
            /\ handler'[s].pc = "idle")
          => /\ Len(timers') = Len(timers) + 1
             /\ timers'[Len(timers')].delay = 30000
      ]_vars

\* C24: getSpotifyAccessToken hands out the cached token only at an instant
\* before the stored expiry (now < expiresAt), never at or after it; and the
\* expiry a refresh stores is the time of the refresh plus nine tenths of the
\* lifetime the response gives, in milliseconds.
C24_CachedOnlyBeforeExpiry ==
    [][\A s \in Slots :
        /\ (CallsGetToken(s) /\ handler'[s].pc \in {"status", "control"})
             => now < spotifyAccessTokenExpiresAt
        /\ (handler[s].pc = "token" /\ handler'[s].tok # 0)
             => \E e \in ExpiresInValues :
                   spotifyAccessTokenExpiresAt' = A_ExpiresAt(now, e)
      ]_vars

\* C25: the cached credential is replaced in one step: whenever the token or
\* its expiry changes, a refresh exchange has been answered, the token is the
\* one of that exchange and the expiry the one computed from its response;
\* and a refresh that is rejected leaves both as they were.
C25_ReplacedAtomically ==
    [][/\ (\/ spotifyAccessToken' # spotifyAccessToken
           \/ spotifyAccessTokenExpiresAt' # spotifyAccessTokenExpiresAt)
            => \E s \in Slots :
                 /\ handler[s].pc = "token"
                 /\ spotifyAccessToken' = handler[s].xid
                 /\ \E e \in ExpiresInValues :
                       spotifyAccessTokenExpiresAt' = A_ExpiresAt(now, e)
       /\ \A s \in Slots :
            (/\ handler[s].pc = "token" /\ handler'[s].pc # "token"
             /\ spotifyAccessToken' # handler[s].xid)
              => UNCHANGED <<spotifyAccessToken, spotifyAccessTokenExpiresAt>>
      ]_vars

\* a second refresh has replaced the token and the expiry of the first
C25_Witness ==
    /\ spotifyAccessToken = 2
    /\ spotifyAccessTokenExpiresAt = A_ExpiresAt(900, 1)
    /\ now = 900

\* C21: a cycle of updateSpotifyMessage that ran with no message id and whose
\* fetch succeeded (a track, or nothing playing) and that did not end in the
\* catch has created exactly one message, and the timer armed for the next
\* cycle carries the id of that message.
C21_FirstRunCreates ==
    [][\A s \in Slots :
        (/\ handler[s].kind = "cycle" /\ handler[s].arg = 0
         /\ handler'[s].pc = "idle"
         /\ lastCycle'.obs \in {"idle", "track"} /\ ~lastCycle'.failed)
          => /\ created' = created + 1
             /\ messages' = messages \cup {created'}
             /\ timers'[Len(timers')].messageId = created' ]_vars

\* C23: a pause, skip or stop command makes one control call and never a
\* second one, and it replies once: every reply it attempts is its last, and
\* its text reports failure exactly when the control call, or the token
\* fetch before it, failed.
C23_OneCallOneReply ==
    [][\A s \in Slots :
        /\ (handler[s].kind = "control" /\ handler[s].pc = "reply")
             => handler'[s].pc # "control"
        /\ (handler[s].kind = "control" /\ handler[s].pc = "reply"
              /\ handler'[s] # handler[s])
             => /\ handler'[s].pc = "idle"
                /\ (handler[s].data = "failed") <=> (handler[s].obs # "ok") ]_vars

-----------------------------------------------------------------------------
(* Variant E (src/unnamed/part_000 1-259): updateSpotifyEmbed re-arms its  *)
(* timer in a finally block; the delay grows with the same track and with  *)
(* failures.                                                               *)

TrackIds == {1, 2}

Min(a, b) == IF a <= b THEN a ELSE b

\* the answers of the status endpoint to fetchCurrentlyPlaying: 204 or 202, a
\* non-ok status (or no answer), is_playing false, is_playing true without an
\* item, a playing track
E_StatusAnswers == {"204", "error", "paused", "noitem", "playing"}

\* a listener registered with client.on: it stays registered
ListenerKept == TRUE

\* the ready listener is registered with client.once: it is removed when it runs
E_ListenerAfterReady == FALSE

\* a faulty growth: the interval shrinks while the track stays the same
E_SameTrackFaster(ci) == IF ci > 1000 THEN ci - 1000 ELSE ci

\* currentInterval after the same track was seen again
E_SameTrack(ci) == Min(ci + 1000, 15000)

\* a faulty catch: the interval grows without a cap
E_AfterErrorUncapped(ci) == ci + 5000

\* a faulty catch: the interval is left as it was
E_AfterErrorKept(ci) == ci

\* currentInterval after an error
E_AfterError(ci) == Min(ci + 5000, 30000)

\* a faulty reset: the interval is kept when the track changes
E_NewTrackKept(ci) == ci

\* currentInterval after a new track was seen: reset to 5 sec
E_NewTrack(ci) == 5000

\* the cycle of handler s ends: the timer is armed with ci; the observer
\* notes what the cycle saw (obs), whether it went through the catch, the
\* delay that was in force when it began, the delay armed, and the number of
\* failed cycles in a row since the delay was the base interval
E_Arm(s, ci, failed, obs) ==
    /\ currentInterval' = ci
    /\ timers' = Append(timers, [messageId |-> 0, delay |-> ci])
    /\ handler' = [handler EXCEPT ![s] = Idle]
    /\ lastCycle' = [obs |-> obs, failed |-> failed,
                     before |-> lastCycle.delay, delay |-> ci,
                     fails |-> IF ~failed THEN 0
                               ELSE IF lastCycle.fails > 0 \/ lastCycle.delay = 5000
                               THEN Min(lastCycle.fails + 1, MaxFails)
                               ELSE 0]

\* finally { setTimeout(updateSpotifyEmbed, currentInterval) }, with
\* currentInterval = ci
E_Finally(s, ci) == E_Arm(s, ci, FALSE, handler[s].obs)

\* catch (error): the interval is raised, then finally
E_Catch(s) == E_Arm(s, E_AfterError(currentInterval), TRUE, handler[s].obs)

\* updateSpotifyEmbed() is called: refreshAccessToken sends its exchange
E_updateSpotifyEmbed(s) ==
    handler' = [handler EXCEPT ![s] = [Idle EXCEPT !.pc = "token", !.kind = "cycle"]]

\* storedMessageId = process.env.MESSAGE_ID || null: no id, or the id of a
\* message sent earlier that may be gone by now
InitE ==
    /\ variant = "E" /\ now = 0
    /\ spotifyAccessToken = 0 /\ spotifyAccessTokenExpiresAt = 0 /\ issued = 0
    /\ lastSpotifyData = "null"
    /\ timers = <<>> /\ connecting = TRUE /\ readyListener = TRUE
    /\ handler = [s \in Slots |-> Idle]
    /\ \/ storedMessageId = 0 /\ created = 0 /\ messages = {}
       \/ storedMessageId = 1 /\ created = 1 /\ messages \in {{}, {1}}
    /\ currentInterval = 5000 /\ lastTrackId = 0
    /\ updateInterval = 0 /\ autoUpdates = TRUE /\ lastCycle = NoCycle
    /\ stopped = FALSE
    /\ NormIdle /\ ArtistIdle

\* 'ready' is emitted: the listener, if still registered, awaits
\* registerCommands and calls updateSpotifyEmbed (nothing runs when
\* registerCommands throws)
E_Ready ==
    /\ variant = "E" /\ connecting
    /\ connecting' = FALSE
    /\ IF readyListener
       THEN /\ readyListener' = E_ListenerAfterReady
            /\ \/ FreeSlot # 0 /\ E_updateSpotifyEmbed(FreeSlot)
               \/ UNCHANGED handler
       ELSE UNCHANGED <<readyListener, handler>>
    /\ UNCHANGED <<timers, discordVars, storedMessageId, currentInterval,
                   lastTrackId, lastCycle, variant, notE>>

\* /restart by a member with the role: client.destroy(), client.login()
E_Restart ==
    /\ variant = "E" /\ ~connecting
    /\ connecting' = TRUE
    /\ UNCHANGED <<timers, readyListener, handler, discordVars, storedMessageId,
                   currentInterval, lastTrackId, lastCycle, variant, notE>>

\* a timer fires: updateSpotifyEmbed
E_TimerFires(s) ==
    /\ variant = "E" /\ s = FreeSlot
    /\ \E i \in DOMAIN timers :
          timers' = SubSeq(timers, 1, i - 1) \o SubSeq(timers, i + 1, Len(timers))
    /\ E_updateSpotifyEmbed(s)
    /\ UNCHANGED <<connecting, readyListener, discordVars, storedMessageId,
                   currentInterval, lastTrackId, lastCycle, variant, notE>>

\* refreshAccessToken: the body holds an access_token, or it does not (or the
\* request failed) and the function throws
E_TokenAnswered(s, ok) ==
    /\ variant = "E" /\ handler[s].pc = "token"
    /\ ok \in BOOLEAN
    /\ IF ok
       THEN /\ handler' = [handler EXCEPT ![s] = [@ EXCEPT !.pc = "status", !.tok = 1]]
            /\ UNCHANGED <<timers, currentInterval, lastCycle>>
       ELSE E_Arm(s, E_AfterError(currentInterval), TRUE, "rejected")
    /\ UNCHANGED <<connecting, readyListener, discordVars, storedMessageId,
                   lastTrackId, variant, notE>>

\* fetchCurrentlyPlaying is answered; a playing track sets the interval and
\* lastTrackId, then the channel is fetched
E_StatusAnswered(s, r, t) ==
    /\ variant = "E" /\ handler[s].pc = "status"
    /\ r \in E_StatusAnswers /\ t \in TrackIds
    /\ IF r = "error" THEN E_Catch(s) /\ UNCHANGED lastTrackId
       ELSE IF r # "playing"
       THEN E_Arm(s, currentInterval, FALSE, "idle") /\ UNCHANGED lastTrackId
       ELSE /\ currentInterval' = IF t = lastTrackId THEN E_SameTrack(currentInterval)
                                                      ELSE E_NewTrack(currentInterval)
            /\ lastTrackId' = t
            /\ handler' = [handler EXCEPT ![s] =
                   [@ EXCEPT !.pc = "channel", !.data = "track",
                             !.obs = IF t = lastTrackId THEN "same" ELSE "new"]]
            /\ UNCHANGED <<timers, lastCycle>>
    /\ UNCHANGED <<connecting, readyListener, discordVars, storedMessageId,
                   variant, notE>>

\* client.channels.fetch(CHANNEL_ID): the channel, null, or an error
E_ChannelFetched(s, r) ==
    /\ variant = "E" /\ handler[s].pc = "channel"
    /\ r \in {"channel", "null", "error"}
    /\ IF r = "error" THEN E_Catch(s)
       ELSE IF r = "null" THEN E_Finally(s, currentInterval)
       ELSE /\ handler' = [handler EXCEPT ![s] =
                   [@ EXCEPT !.pc = IF storedMessageId # 0 THEN "msgFetch" ELSE "msgSend",
                             !.arg = storedMessageId]]
            /\ UNCHANGED <<timers, currentInterval, lastCycle>>
    /\ UNCHANGED <<connecting, readyListener, discordVars, storedMessageId,
                   lastTrackId, variant, notE>>

\* channel.messages.fetch(storedMessageId): the message, or an error (the
\* message is gone, or the request failed), which the inner catch answers
\* with channel.send
E_MsgFetched(s, found) ==
    /\ variant = "E" /\ handler[s].pc = "msgFetch"
    /\ found \in BOOLEAN
    /\ found => handler[s].arg \in messages
    /\ handler' = [handler EXCEPT ![s] =
            [@ EXCEPT !.pc = IF found THEN "msgEdit" ELSE "msgSend"]]
    /\ UNCHANGED <<timers, connecting, readyListener, discordVars, storedMessageId,
                   currentInterval, lastTrackId, lastCycle, variant, notE>>

\* message.edit: done, or an error, which the inner catch answers with
\* channel.send
E_MsgEdited(s, ok) ==
    /\ variant = "E" /\ handler[s].pc = "msgEdit"
    /\ ok \in BOOLEAN
    /\ ok => handler[s].arg \in messages
    /\ IF ok
       THEN E_Finally(s, currentInterval)
       ELSE /\ handler' = [handler EXCEPT ![s] = [@ EXCEPT !.pc = "msgSend"]]
            /\ UNCHANGED <<timers, currentInterval, lastCycle>>
    /\ UNCHANGED <<connecting, readyListener, discordVars, storedMessageId,
                   lastTrackId, variant, notE>>

\* channel.send: the new message's id is stored, or an error reaches the
\* outer catch
E_MsgSent(s, ok) ==
    /\ variant = "E" /\ handler[s].pc = "msgSend"
    /\ ok \in BOOLEAN
    /\ IF ok
       THEN /\ created < MaxMessages
            /\ created' = created + 1
            /\ messages' = messages \cup {created + 1}
            /\ storedMessageId' = created + 1
            /\ E_Finally(s, currentInterval)
       ELSE /\ UNCHANGED <<discordVars, storedMessageId>>
            /\ E_Catch(s)
    /\ UNCHANGED <<connecting, readyListener, lastTrackId, variant, notE>>

\* someone deletes a message of the channel
E_DeleteMessage == variant = "E" /\ DeleteMessage

NextE ==
    \/ E_DeleteMessage
    \/ E_Ready
    \/ E_Restart
    \/ \E s \in Slots : E_TimerFires(s)
    \/ \E s \in Slots, ok \in BOOLEAN : E_TokenAnswered(s, ok)
    \/ \E s \in Slots, r \in E_StatusAnswers, t \in TrackIds : E_StatusAnswered(s, r, t)
    \/ \E s \in Slots, r \in {"channel", "null", "error"} : E_ChannelFetched(s, r)
    \/ \E s \in Slots, found \in BOOLEAN : E_MsgFetched(s, found)
    \/ \E s \in Slots, ok \in BOOLEAN : E_MsgEdited(s, ok)
    \/ \E s \in Slots, ok \in BOOLEAN : E_MsgSent(s, ok)

SpecE == InitE /\ [][NextE]_vars

C15_NewTrackResets ==
    (lastCycle.obs = "new" /\ ~lastCycle.failed) => lastCycle.delay = 5000

\* C15 witness: failures had raised the delay to 20000 ms, and the cycle
\* after them has seen a new track and armed the base interval.
C15_Witness ==
    /\ lastCycle.obs = "new" /\ ~lastCycle.failed
    /\ lastCycle.before = 20000 /\ lastCycle.delay = 5000
    /\ timers # <<>> /\ timers[Len(timers)].delay = 5000

\* C16: after k failed cycles in a row, the first of which began with the
\* base interval, the delay armed is min(base * g^k, maxBackoff) for one
\* growth factor g > 1 (g = p/q; base 5000, maxBackoff 30000).
C16_GeometricBackoff ==
    \E p, q \in 1..MaxFactorTerm :
        /\ p > q
        /\ (lastCycle.failed /\ lastCycle.fails \in 1..(MaxFails - 1))
             => \/ /\ 5000 * p^lastCycle.fails < 30000 * q^lastCycle.fails
                   /\ lastCycle.delay * q^lastCycle.fails = 5000 * p^lastCycle.fails
                \/ /\ 5000 * p^lastCycle.fails >= 30000 * q^lastCycle.fails
                   /\ lastCycle.delay = 30000

\* C17: the first cycle that ends without an error after a failed one arms
\* the base interval of 5000 ms, whatever it has observed.
C17_SuccessResetsBackoff ==
    [][(lastCycle.failed /\ ~lastCycle'.failed) => lastCycle'.delay = 5000]_vars

\* the refresh exchange of the cycle of handler s is rejected in this step
E_Rejected(s) ==
    /\ handler[s].kind = "cycle" /\ handler[s].pc = "token"
    /\ handler'[s].pc = "idle"

\* C32: every cycle in which refreshAccessToken throws ends as a failed
\* cycle that raises the delay and arms exactly one next cycle, however many
\* rejections came before.
C32_RejectionRaisesDelay ==
    [][\A s \in Slots : E_Rejected(s) =>
          /\ lastCycle'.failed
          /\ currentInterval' > currentInterval
          /\ timers' = Append(timers, [messageId |-> 0, delay |-> currentInterval'])
      ]_vars

\* C32, amended: the same, with the delay raised by 5000 ms up to the cap of
\* 30000 ms: a rejection at the cap arms 30000 ms again.
C32_RejectionBacksOff ==
    [][\A s \in Slots : E_Rejected(s) =>
          /\ lastCycle'.failed
          /\ \/ currentInterval' > currentInterval
             \/ currentInterval = 30000 /\ currentInterval' = 30000
          /\ timers' = Append(timers, [messageId |-> 0, delay |-> currentInterval'])
      ]_vars

\* C32 witness: the refresh was rejected in a cycle that began with the delay
\* at the cap, after rejections had raised it; the cycle has armed one timer
\* of 30000 ms.
C32_Witness ==
    /\ lastCycle.obs = "rejected" /\ lastCycle.failed
    /\ lastCycle.before = 30000 /\ lastCycle.delay = 30000
    /\ Len(timers) = 1 /\ timers[1].delay = 30000
    /\ Cycles = {}

\* a cycle ends in this step through the catch
E_FailedCycleEnds ==
    /\ lastCycle'.failed
    /\ \E s \in Slots : handler[s].kind = "cycle" /\ handler'[s].pc = "idle"

\* C36: currentInterval stays within 5000..30000 ms after any sequence of
\* successful, idle and failed cycles, and it exceeds 15000 ms only as the
\* result of failed cycles: a step that sets it to another value above 15000
\* is the end of a failed cycle.
C36_IntervalInRange ==
    /\ [](currentInterval \in 5000..30000)
    /\ [][(currentInterval' > 15000 /\ currentInterval' # currentInterval)
            => E_FailedCycleEnds]_vars

\* C36 witness: failures have raised the interval to 30000 ms and a
\* successful cycle that saw nothing playing has armed 30000 ms again.
C36_Witness ==
    /\ currentInterval = 30000
    /\ lastCycle.obs = "idle" /\ ~lastCycle.failed /\ lastCycle.delay = 30000
    /\ timers # <<>>

\* C26: when fetching or editing the stored message fails although the
\* message exists (a failure other than the message not existing),
\* updateSpotifyEmbed does not go on to create a message and leaves
\* storedMessageId as it was.
C26_TransientKeepsMessage ==
    [][\A s \in Slots :
        (/\ handler[s].pc \in {"msgFetch", "msgEdit"}
         /\ handler[s].arg \in messages
         /\ handler'[s] # handler[s])
          => /\ handler'[s].pc # "msgSend"
             /\ storedMessageId' = storedMessageId ]_vars

-----------------------------------------------------------------------------
(* The two loops that re-arm themselves on completion: A's                 *)
(* scheduleNextUpdate and E's updateSpotifyEmbed.                          *)

InitLoops == InitA \/ InitE
NextLoops == NextA \/ NextE
SpecLoops == InitLoops /\ [][NextLoops]_vars

\* C9: at most one cycle is in flight and at most one timer is pending, and a
\* timer is pending only when no cycle is in flight: the next timer is armed
\* when the cycle's fetch and reconcile have finished.
C9_SingleFlight == Len(timers) + Cardinality(Cycles) <= 1

\* C9 witness: after a /restart has made 'ready' fire again, a cycle that
\* follows a failed cycle is in its reconcile step, no timer pending.
C9_Witness ==
    /\ variant = "E" /\ ~connecting /\ ~readyListener
    /\ currentInterval = 10000
    /\ timers = <<>>
    /\ \E s \in Slots : handler[s].pc = "msgEdit"

-----------------------------------------------------------------------------
(* Variant G (src/unnamed/part_001 1-268): the token is refreshed when it  *)
(* is missing and when the status endpoint answers 401; the loop is        *)
(* started by every 'ready' event.                                         *)

\* the answers of the status endpoint to fetchSpotifyData: 204, 401, another
\* non-ok status (or no answer), a body with is_playing false or without
\* item, a playing track
G_StatusAnswers == {"204", "401", "error", "notplaying", "track"}

\* spotifyData.endMs - now, for a track at its end and for one far from it
TimeLefts == {0, 60000}

Max(a, b) == IF a >= b THEN a ELSE b

\* Math.min(5000, Math.max(1000, timeLeft))
G_IntervalFor(timeLeft) == Min(5000, Max(1000, timeLeft))

\* fetchSpotifyData() is entered by handler s of kind k: the token is
\* refreshed when there is none, else the status request is sent with it
G_fetchSpotifyData(s, k) ==
    handler' = [handler EXCEPT ![s] =
        [Idle EXCEPT !.pc = IF spotifyAccessToken = 0 THEN "token" ELSE "status",
                     !.kind = k, !.tok = spotifyAccessToken]]

\* finally { setTimeout(updateSpotifyMessage, updateInterval) }; the cycle
\* saw seen ("idle": nothing playing, "track": a track it has written to the
\* message), or threw
G_Finally(s, ui, seen, threw) ==
    /\ updateInterval' = ui
    /\ lastCycle' = [NoCycle EXCEPT !.obs = seen, !.failed = threw]
    /\ timers' = Append(timers, [messageId |-> 0, delay |-> ui])
    /\ handler' = [handler EXCEPT ![s] = Idle]

\* the handler ends with an error: updateSpotifyMessage catches it and sets
\* the interval to 10000, a command handler's rejection is unhandled
G_Throw(s) ==
    IF handler[s].kind = "cycle" THEN G_Finally(s, 10000, "none", TRUE)
    ELSE /\ handler' = [handler EXCEPT ![s] = Idle]
         /\ UNCHANGED <<timers, updateInterval, lastCycle>>

\* updateOrSendMessage has returned: the interval follows the time left
G_Reconciled(s, seen) ==
    IF handler[s].kind = "cycle"
    THEN \E tl \in TimeLefts : G_Finally(s, G_IntervalFor(tl), seen, FALSE)
    ELSE /\ handler' = [handler EXCEPT ![s] = Idle]
         /\ UNCHANGED <<timers, updateInterval, lastCycle>>

InitG ==
    /\ variant = "G" /\ now = 0
    /\ spotifyAccessToken = 0 /\ spotifyAccessTokenExpiresAt = 0 /\ issued = 0
    /\ lastSpotifyData = "null"
    /\ timers = <<>> /\ connecting = TRUE /\ readyListener = TRUE
    /\ handler = [s \in Slots |-> Idle]
    /\ \/ storedMessageId = 0 /\ created = 0 /\ messages = {}
       \/ storedMessageId = 1 /\ created = 1 /\ messages \in {{}, {1}}
    /\ currentInterval = 0 /\ lastTrackId = 0
    /\ updateInterval = 5000 /\ autoUpdates = TRUE /\ lastCycle = NoCycle
    /\ stopped = FALSE
    /\ NormIdle /\ ArtistIdle

\* client.on('ready'): registerCommands() and updateSpotifyMessage() are
\* called, neither is awaited; the listener stays registered
G_Ready ==
    /\ variant = "G" /\ connecting /\ readyListener
    /\ FreeSlot # 0
    /\ Len(timers) + Cardinality(Cycles) < MaxChains
    /\ connecting' = FALSE
    /\ G_fetchSpotifyData(FreeSlot, "cycle")
    /\ UNCHANGED <<spotifyAccessToken, timers, discordVars, storedMessageId,
                   updateInterval, variant, lastCycle, notG>>

\* /restart by a member with the role: client.destroy(), client.login()
G_Restart ==
    /\ variant = "G" /\ ~connecting
    /\ connecting' = TRUE
    /\ UNCHANGED <<spotifyAccessToken, timers, handler, discordVars,
                   storedMessageId, updateInterval, variant, lastCycle, notG>>

\* a timer fires: updateSpotifyMessage
G_TimerFires(s) ==
    /\ variant = "G" /\ s = FreeSlot
    /\ \E i \in DOMAIN timers :
          timers' = SubSeq(timers, 1, i - 1) \o SubSeq(timers, i + 1, Len(timers))
    /\ G_fetchSpotifyData(s, "cycle")
    /\ UNCHANGED <<spotifyAccessToken, connecting, discordVars, storedMessageId,
                   updateInterval, variant, lastCycle, notG>>

\* /testembed (anyone) and /setembed (the role): fetchSpotifyData
G_Command(s, k) ==
    /\ variant = "G" /\ s = FreeSlot
    /\ k \in {"testembed", "setembed"}
    /\ G_fetchSpotifyData(s, k)
    /\ UNCHANGED <<spotifyAccessToken, timers, connecting, discordVars,
                   storedMessageId, updateInterval, variant, lastCycle, notG>>

\* refreshSpotifyToken is answered. ok: the token is stored; after the first
\* refresh the status request is sent, after a 401 fetchSpotifyData calls
\* itself and, the token being set, sends the status request again.
\* Not ok: the error leaves fetchSpotifyData
G_RefreshAnswered(s, ok) ==
    /\ variant = "G" /\ handler[s].pc \in {"token", "retoken"}
    /\ ok \in BOOLEAN
    /\ IF ok
       THEN /\ spotifyAccessToken' = 1
            /\ handler' = [handler EXCEPT ![s] =
                   [@ EXCEPT !.pc = "status", !.tok = 1,
                             !.retries = IF handler[s].pc = "retoken"
                                         THEN @ + 1 ELSE @]]
            /\ UNCHANGED <<timers, updateInterval, lastCycle>>
       ELSE /\ G_Throw(s)
            /\ UNCHANGED spotifyAccessToken
    /\ UNCHANGED <<connecting, discordVars, storedMessageId, variant, notG>>

\* the status request is answered
G_StatusAnswered(s, r) ==
    /\ variant = "G" /\ handler[s].pc = "status"
    /\ r \in G_StatusAnswers
    /\ IF r = "401"
       THEN /\ handler[s].retries < MaxRetries
            /\ handler' = [handler EXCEPT ![s] = [@ EXCEPT !.pc = "retoken"]]
            /\ UNCHANGED <<timers, updateInterval, lastCycle>>
       ELSE IF r = "error" THEN G_Throw(s)
       ELSE IF r \in {"204", "notplaying"}
       THEN IF handler[s].kind = "cycle" THEN G_Finally(s, 10000, "idle", FALSE)
            ELSE /\ handler' = [handler EXCEPT ![s] = Idle]
                 /\ UNCHANGED <<timers, updateInterval, lastCycle>>
       ELSE IF handler[s].kind = "testembed"
       THEN /\ handler' = [handler EXCEPT ![s] = Idle]
            /\ UNCHANGED <<timers, updateInterval, lastCycle>>
       ELSE /\ handler' = [handler EXCEPT ![s] =
                   [@ EXCEPT !.pc = "channel", !.data = "track"]]
            /\ UNCHANGED <<timers, updateInterval, lastCycle>>
    /\ UNCHANGED <<spotifyAccessToken, connecting, discordVars, storedMessageId,
                   variant, notG>>

\* client.channels.fetch(CHANNEL_ID): the channel, null, or an error.
\* updateOrSendMessage returns on null; /setembed sends to what it got
G_ChannelFetched(s, r) ==
    /\ variant = "G" /\ handler[s].pc = "channel"
    /\ r \in {"channel", "null", "error"}
    /\ IF r = "error" THEN G_Throw(s)
       ELSE IF r = "null"
       THEN IF handler[s].kind = "cycle" THEN G_Reconciled(s, "none") ELSE G_Throw(s)
       ELSE /\ handler' = [handler EXCEPT ![s] =
                   [@ EXCEPT !.pc = IF handler[s].kind = "cycle" /\ storedMessageId # 0
                                    THEN "msgFetch" ELSE "msgSend",
                             !.arg = storedMessageId]]
            /\ UNCHANGED <<timers, updateInterval, lastCycle>>
    /\ UNCHANGED <<spotifyAccessToken, connecting, discordVars, storedMessageId,
                   variant, notG>>

\* channel.messages.fetch(storedMessageId): the message, or an error, after
\* which the catch falls through to channel.send
G_MsgFetched(s, found) ==
    /\ variant = "G" /\ handler[s].pc = "msgFetch"
    /\ found \in BOOLEAN
    /\ found => handler[s].arg \in messages
    /\ handler' = [handler EXCEPT ![s] =
            [@ EXCEPT !.pc = IF found THEN "msgEdit" ELSE "msgSend"]]
    /\ UNCHANGED <<spotifyAccessToken, timers, connecting, discordVars,
                   storedMessageId, updateInterval, variant, lastCycle, notG>>

\* msg.edit: done, or an error, after which the catch falls through to
\* channel.send
G_MsgEdited(s, ok) ==
    /\ variant = "G" /\ handler[s].pc = "msgEdit"
    /\ ok \in BOOLEAN
    /\ ok => handler[s].arg \in messages
    /\ IF ok
       THEN G_Reconciled(s, "track")
       ELSE /\ handler' = [handler EXCEPT ![s] = [@ EXCEPT !.pc = "msgSend"]]
            /\ UNCHANGED <<timers, updateInterval, lastCycle>>
    /\ UNCHANGED <<spotifyAccessToken, connecting, discordVars, storedMessageId,
                   variant, notG>>

\* channel.send: the new message's id is stored, or an error
G_MsgSent(s, ok) ==
    /\ variant = "G" /\ handler[s].pc = "msgSend"
    /\ ok \in BOOLEAN
    /\ IF ok
       THEN /\ created < MaxMessages
            /\ created' = created + 1
            /\ messages' = messages \cup {created + 1}
            /\ storedMessageId' = created + 1
            /\ G_Reconciled(s, "track")
       ELSE /\ UNCHANGED <<discordVars, storedMessageId>>
            /\ G_Throw(s)
    /\ UNCHANGED <<spotifyAccessToken, connecting, variant, notG>>

\* someone deletes a message of the channel
G_DeleteMessage == variant = "G" /\ DeleteMessage

NextG ==
    \/ G_DeleteMessage
    \/ G_Ready
    \/ G_Restart
    \/ \E s \in Slots : G_TimerFires(s)
    \/ \E s \in Slots, k \in {"testembed", "setembed"} : G_Command(s, k)
    \/ \E s \in Slots, ok \in BOOLEAN : G_RefreshAnswered(s, ok)
    \/ \E s \in Slots, r \in G_StatusAnswers : G_StatusAnswered(s, r)
    \/ \E s \in Slots, r \in {"channel", "null", "error"} : G_ChannelFetched(s, r)
    \/ \E s \in Slots, found \in BOOLEAN : G_MsgFetched(s, found)
    \/ \E s \in Slots, ok \in BOOLEAN : G_MsgEdited(s, ok)
    \/ \E s \in Slots, ok \in BOOLEAN : G_MsgSent(s, ok)

SpecG == InitG /\ [][NextG]_vars

\* C5: on a 401 fetchSpotifyData refreshes once and retries once; a second
\* 401 is surfaced as an error, it is not answered by another refresh and retry.
C5_RetryOnce == \A s \in Slots : handler[s].retries <= 1

\* C10: cycle N+1 of updateSpotifyMessage does not begin before cycle N has
\* completed, also when 'ready' fires again after /restart.
C10_CyclesInOrder == Cardinality(Cycles) <= 1

\* C30: a successful cycle of updateSpotifyMessage that observes nothing
\* playing while the status message exists and shows the track of the cycle
\* before has written the idle rendering to the message: it ends after an
\* edit or a send, so that the message does not keep showing the track.
C30_IdleIsRendered ==
    [][\A s \in Slots :
        ( /\ handler[s].kind = "cycle" /\ handler'[s].pc = "idle"
          /\ lastCycle.obs = "track"
          /\ storedMessageId # 0 /\ storedMessageId \in messages
          /\ lastCycle'.obs = "idle" /\ ~lastCycle'.failed )
          => handler[s].pc \in {"msgEdit", "msgSend"} ]_vars

-----------------------------------------------------------------------------
(* Variant F (src/unnamed/part_000 261-500): a token is requested for      *)
(* every fetch, updateEmbed runs on a 15 s interval timer.                 *)

\* the answers of the auth endpoint to getAccessToken: a body with an
\* access_token; a rejection, whose JSON body has none; no parsable answer
F_TokenAnswers == {"token", "rejected", "throw"}

\* the answers of the status endpoint to fetchSpotifyCurrentlyPlaying: 204; a
\* status above 400; 400, with an error body; no answer at all; a body with
\* is_playing false; is_playing true without an item; a playing track
F_StatusAnswers == {"204", "error", "400", "throw", "notplaying", "noitem", "track"}

\* const data = await response.json(); return data.access_token (0: undefined)
F_AccessToken(a) == IF a = "token" THEN 1 ELSE 0

\* a faulty catch: the stored id is kept
F_KeptId(id) == id

\* catch { storedMessageId = null }
F_ClearedId(id) == 0

\* fetchSpotifyCurrentlyPlaying throws on answer r: no answer at all, or a
\* playing body without item (data.item.name of null)
F_fetchThrows(r) == r \in {"throw", "noitem"}

\* the handler ends: it has returned, or (threw) its rejection is unhandled.
\* The observer notes how a run of updateEmbed ended and what answer of the
\* status endpoint it had seen
F_End(s, seen, threw) ==
    /\ handler' = [handler EXCEPT ![s] = Idle]
    /\ lastCycle' = IF handler[s].kind = "cycle"
                    THEN [NoCycle EXCEPT !.obs = seen, !.failed = threw]
                    ELSE lastCycle

\* getAccessToken() is called: the exchange is sent
F_getAccessToken(s, k) ==
    handler' = [handler EXCEPT ![s] = [@ EXCEPT !.pc = "token", !.kind = k]]

InitF ==
    /\ variant = "F" /\ now = 0
    /\ spotifyAccessToken = 0 /\ spotifyAccessTokenExpiresAt = 0 /\ issued = 0
    /\ lastSpotifyData = "null"
    /\ timers = <<>> /\ connecting = FALSE /\ readyListener = FALSE
    /\ handler = [s \in Slots |-> Idle]
    /\ storedMessageId = 0 /\ created = 0 /\ messages = {}
    /\ currentInterval = 0 /\ lastTrackId = 0
    /\ updateInterval = 0 /\ autoUpdates = TRUE /\ lastCycle = NoCycle
    /\ stopped = FALSE
    /\ NormIdle /\ ArtistIdle

\* the interval timer fires: updateEmbed returns when autoUpdates is off, else
\* it fetches the channel
F_IntervalFires(s) ==
    /\ variant = "F" /\ s = FreeSlot
    /\ IF autoUpdates
       THEN handler' = [handler EXCEPT ![s] = [Idle EXCEPT !.pc = "channel", !.kind = "cycle"]]
       ELSE UNCHANGED handler
    /\ UNCHANGED <<storedMessageId, autoUpdates, discordVars, variant, lastCycle, notF>>

\* /toggleupdates
F_ToggleUpdates ==
    /\ variant = "F"
    /\ autoUpdates' = ~autoUpdates
    /\ UNCHANGED <<handler, storedMessageId, discordVars, variant, lastCycle, notF>>

\* /testembed and /setembed call fetchSpotifyCurrentlyPlaying, /trackinfo
\* calls getAccessToken itself
F_Command(s, k) ==
    /\ variant = "F" /\ s = FreeSlot
    /\ k \in {"testembed", "setembed", "trackinfo"}
    /\ F_getAccessToken(s, k)
    /\ UNCHANGED <<storedMessageId, autoUpdates, discordVars, variant, lastCycle, notF>>

\* client.channels.fetch(CHANNEL_ID) is answered. In updateEmbed the fetch of
\* the playback follows, in /setembed channel.send
F_ChannelFetched(s, ok) ==
    /\ variant = "F" /\ handler[s].pc = "channel"
    /\ ok \in BOOLEAN
    /\ IF ~ok THEN F_End(s, "none", TRUE)
       ELSE /\ IF handler[s].kind = "cycle" THEN F_getAccessToken(s, "cycle")
               ELSE handler' = [handler EXCEPT ![s] = [@ EXCEPT !.pc = "msgSend"]]
            /\ UNCHANGED lastCycle
    /\ UNCHANGED <<storedMessageId, autoUpdates, discordVars, variant, notF>>

\* getAccessToken returns data.access_token, whatever the status of the
\* response, and the status request is sent with it
F_TokenAnswered(s, a) ==
    /\ variant = "F" /\ handler[s].pc = "token"
    /\ a \in F_TokenAnswers
    /\ IF a = "throw" THEN F_End(s, "none", TRUE)
       ELSE /\ handler' = [handler EXCEPT ![s] =
                   [@ EXCEPT !.pc = "status", !.tok = F_AccessToken(a)]]
            /\ UNCHANGED lastCycle
    /\ UNCHANGED <<storedMessageId, autoUpdates, discordVars, variant, notF>>

\* the status request is answered: null for 204, a status above 400 and a
\* body with is_playing not true; an error for a playing body without item
F_StatusAnswered(s, r) ==
    /\ variant = "F" /\ handler[s].pc = "status"
    /\ r \in F_StatusAnswers
    /\ IF r # "track" \/ handler[s].kind \in {"testembed", "trackinfo"}
       THEN F_End(s, r, F_fetchThrows(r))
       ELSE /\ IF handler[s].kind = "setembed"
               THEN handler' = [handler EXCEPT ![s] =
                       [@ EXCEPT !.pc = "channel", !.data = "track"]]
               ELSE handler' = [handler EXCEPT ![s] =
                       [@ EXCEPT !.pc = IF storedMessageId # 0 THEN "msgFetch" ELSE "msgSend",
                                 !.data = "track", !.arg = storedMessageId]]
            /\ UNCHANGED lastCycle
    /\ UNCHANGED <<storedMessageId, autoUpdates, discordVars, variant, notF>>

\* channel.messages.fetch(storedMessageId): the message, or an error, on
\* which the catch clears storedMessageId and channel.send follows
F_MsgFetched(s, found) ==
    /\ variant = "F" /\ handler[s].pc = "msgFetch"
    /\ found \in BOOLEAN
    /\ found => handler[s].arg \in messages
    /\ handler' = [handler EXCEPT ![s] =
            [@ EXCEPT !.pc = IF found THEN "msgEdit" ELSE "msgSend"]]
    /\ storedMessageId' = IF found THEN storedMessageId
                                 ELSE F_ClearedId(storedMessageId)
    /\ UNCHANGED <<autoUpdates, discordVars, variant, lastCycle, notF>>

\* message.edit: done, or an error, on which the catch clears
\* storedMessageId and channel.send follows
F_MsgEdited(s, ok) ==
    /\ variant = "F" /\ handler[s].pc = "msgEdit"
    /\ ok \in BOOLEAN
    /\ ok => handler[s].arg \in messages
    /\ IF ok
       THEN F_End(s, "track", FALSE) /\ UNCHANGED storedMessageId
       ELSE /\ handler' = [handler EXCEPT ![s] = [@ EXCEPT !.pc = "msgSend"]]
            /\ storedMessageId' = F_ClearedId(storedMessageId)
            /\ UNCHANGED lastCycle
    /\ UNCHANGED <<autoUpdates, discordVars, variant, notF>>

\* channel.send: the new message's id is stored, or an error
F_MsgSent(s, ok) ==
    /\ variant = "F" /\ handler[s].pc = "msgSend"
    /\ ok \in BOOLEAN
    /\ IF ok
       THEN /\ created < MaxMessages
            /\ created' = created + 1
            /\ messages' = messages \cup {created + 1}
            /\ storedMessageId' = created + 1
       ELSE UNCHANGED <<discordVars, storedMessageId>>
    /\ F_End(s, "track", ~ok)
    /\ UNCHANGED <<autoUpdates, variant, notF>>

\* someone deletes a message of the channel
F_DeleteMessage == variant = "F" /\ DeleteMessage

NextF ==
    \/ F_DeleteMessage
    \/ F_ToggleUpdates
    \/ \E s \in Slots : F_IntervalFires(s)
    \/ \E s \in Slots, k \in {"testembed", "setembed", "trackinfo"} : F_Command(s, k)
    \/ \E s \in Slots, ok \in BOOLEAN : F_ChannelFetched(s, ok)
    \/ \E s \in Slots, a \in F_TokenAnswers : F_TokenAnswered(s, a)
    \/ \E s \in Slots, r \in F_StatusAnswers : F_StatusAnswered(s, r)
    \/ \E s \in Slots, found \in BOOLEAN : F_MsgFetched(s, found)
    \/ \E s \in Slots, ok \in BOOLEAN : F_MsgEdited(s, ok)
    \/ \E s \in Slots, ok \in BOOLEAN : F_MsgSent(s, ok)

SpecF == InitF /\ [][NextF]_vars

\* Variant F with updateEmbed driven by its interval timer alone: no command
\* that fetches or sends, and nobody deletes a message
NextFTimer ==
    \/ F_ToggleUpdates
    \/ \E s \in Slots : F_IntervalFires(s)
    \/ \E s \in Slots, ok \in BOOLEAN : F_ChannelFetched(s, ok)
    \/ \E s \in Slots, a \in F_TokenAnswers : F_TokenAnswered(s, a)
    \/ \E s \in Slots, r \in F_StatusAnswers : F_StatusAnswered(s, r)
    \/ \E s \in Slots, found \in BOOLEAN : F_MsgFetched(s, found)
    \/ \E s \in Slots, ok \in BOOLEAN : F_MsgEdited(s, ok)
    \/ \E s \in Slots, ok \in BOOLEAN : F_MsgSent(s, ok)

SpecFTimer == InitF /\ [][NextFTimer]_vars

\* C11: with updateEmbed driven by its interval timer alone and no message
\* deleted, there are never two messages of the engine in the channel.
C11_SingleArtifact == Cardinality(messages) <= 1

C3_StatusRequestHasToken ==
    \A s \in Slots : handler[s].pc = "status" => handler[s].tok # 0

\* C28: a status response of unexpected shape (is_playing true but no item)
\* is treated as Idle for that cycle: the run of updateEmbed that has seen it
\* returns, it does not end with an error raised out of updateEmbed.
C28_MalformedIsIdle == lastCycle.obs = "noitem" => ~lastCycle.failed

-----------------------------------------------------------------------------
(* Variant B (src/index.js 250-393): a token is requested for every fetch, *)
(* updateStatus runs at 'ready' and on a 60 s interval timer, the message  *)
(* to edit is the constant STATUS_MESSAGE_ID.                              *)

\* the message id of the environment; the ids of sent messages are smaller
STATUS_MESSAGE_ID == 9

\* the statuses of the status endpoint's response; 0: the request fails
HttpStatuses == {0, 200, 204, 400, 401, 500}

\* the bodies of a response: a playing track, a playback without item, an
\* error object
HttpBodies == {"track", "noitem", "errbody"}

\* the body the endpoint sends with a status
BodyOf(st) == IF st = 200 THEN {"track", "noitem"} ELSE {"errbody"}

\* the result of getCurrentPlayback for a response: null, or the parsed body
B_getCurrentPlayback(st, body) ==
    IF st = 204 \/ st > 400 THEN "null" ELSE body

\* buildEmbed(track) throws when track is not null and has no item
B_buildEmbedThrows(d) == d \in {"noitem", "errbody"}

\* the handler ends: it has returned or replied, its error is logged by the
\* catch of updateStatus, or its rejection is unhandled
B_End(s) == handler' = [handler EXCEPT ![s] = Idle]

\* getSpotifyAccessToken() is called: the exchange is sent; arg notes how
\* many messages had been created when the handler began
B_getSpotifyAccessToken(s, k) ==
    handler' = [handler EXCEPT ![s] =
        [Idle EXCEPT !.pc = "token", !.kind = k, !.arg = created]]

InitB ==
    /\ variant = "B" /\ now = 0
    /\ spotifyAccessToken = 0 /\ spotifyAccessTokenExpiresAt = 0 /\ issued = 0
    /\ lastSpotifyData = "null"
    /\ timers = <<>> /\ connecting = TRUE /\ readyListener = TRUE
    /\ handler = [s \in Slots |-> Idle]
    /\ storedMessageId = STATUS_MESSAGE_ID /\ created = 0
    /\ messages \in {{}, {STATUS_MESSAGE_ID}}
    /\ currentInterval = 0 /\ lastTrackId = 0
    /\ updateInterval = 0 /\ autoUpdates = TRUE /\ lastCycle = NoCycle
    /\ stopped = FALSE
    /\ NormIdle /\ ArtistIdle

\* 'ready': registerCommands, then updateStatusLoop calls updateStatus and
\* starts the interval timer
B_Ready ==
    /\ variant = "B" /\ connecting
    /\ connecting' = FALSE
    /\ timers' = <<[messageId |-> 0, delay |-> 60000]>>
    /\ B_getSpotifyAccessToken(FreeSlot, "cycle")
    /\ UNCHANGED <<discordVars, variant, notB>>

\* the interval timer fires: updateStatus
B_IntervalFires(s) ==
    /\ variant = "B" /\ timers # <<>> /\ s = FreeSlot
    /\ B_getSpotifyAccessToken(s, "cycle")
    /\ UNCHANGED <<timers, connecting, discordVars, variant, notB>>

\* /status fetches the playback itself, /refresh awaits updateStatus
B_Command(s, k) ==
    /\ variant = "B" /\ ~connecting /\ s = FreeSlot
    /\ k \in {"status", "refresh"}
    /\ B_getSpotifyAccessToken(s, k)
    /\ UNCHANGED <<timers, connecting, discordVars, variant, notB>>

\* the exchange is answered: the access_token of the body, or an error when
\* the body has none or there is no body; then getCurrentPlayback is called
B_TokenAnswered(s, ok) ==
    /\ variant = "B" /\ handler[s].pc = "token"
    /\ ok \in BOOLEAN
    /\ IF ok
       THEN handler' = [handler EXCEPT ![s] = [@ EXCEPT !.pc = "status", !.tok = 1]]
       ELSE B_End(s)
    /\ UNCHANGED <<timers, connecting, discordVars, variant, notB>>

\* the status request is answered with status st and a body. /status replies
\* with buildEmbed(playback); updateStatus goes on to fetch the channel
B_StatusAnswered(s, st, body) ==
    /\ variant = "B" /\ handler[s].pc = "status"
    /\ st \in HttpStatuses /\ body \in BodyOf(st)
    /\ IF st = 0 \/ handler[s].kind = "status"
       THEN B_End(s)
       ELSE handler' = [handler EXCEPT ![s] =
                [@ EXCEPT !.pc = "channel", !.http = st,
                          !.data = B_getCurrentPlayback(st, body)]]
    /\ UNCHANGED <<timers, connecting, discordVars, variant, notB>>

\* client.channels.fetch(STATUS_CHANNEL_ID): the channel, or nothing
B_ChannelFetched(s, ok) ==
    /\ variant = "B" /\ handler[s].pc = "channel"
    /\ ok \in BOOLEAN
    /\ IF ok
       THEN handler' = [handler EXCEPT ![s] = [@ EXCEPT !.pc = "msgFetch"]]
       ELSE B_End(s)
    /\ UNCHANGED <<timers, connecting, discordVars, variant, notB>>

\* channel.messages.fetch(STATUS_MESSAGE_ID): the message, and message.edit
\* follows, or an error, and channel.send follows; buildEmbed(playback) is
\* evaluated first and its error ends updateStatus
B_MsgFetched(s, found) ==
    /\ variant = "B" /\ handler[s].pc = "msgFetch"
    /\ found \in BOOLEAN
    /\ found => storedMessageId \in messages
    /\ IF B_buildEmbedThrows(handler[s].data)
       THEN B_End(s)
       ELSE handler' = [handler EXCEPT ![s] =
                [@ EXCEPT !.pc = IF found THEN "msgEdit" ELSE "msgSend"]]
    /\ UNCHANGED <<timers, connecting, discordVars, variant, notB>>

\* message.edit is answered
B_MsgEdited(s, ok) ==
    /\ variant = "B" /\ handler[s].pc = "msgEdit"
    /\ ok \in BOOLEAN
    /\ ok => storedMessageId \in messages
    /\ B_End(s)
    /\ UNCHANGED <<timers, connecting, discordVars, variant, notB>>

\* channel.send is answered: a new message, whose id is logged and not kept
B_MsgSent(s, ok) ==
    /\ variant = "B" /\ handler[s].pc = "msgSend"
    /\ ok \in BOOLEAN
    /\ IF ok
       THEN /\ created < MaxMessages
            /\ created' = created + 1
            /\ messages' = messages \cup {created + 1}
       ELSE UNCHANGED discordVars
    /\ B_End(s)
    /\ UNCHANGED <<timers, connecting, variant, notB>>

\* someone deletes a message of the channel
B_DeleteMessage ==
    /\ variant = "B"
    /\ \E m \in messages : messages' = messages \ {m}
    /\ UNCHANGED <<created, handler, timers, connecting, variant, notB>>

NextB ==
    \/ B_Ready
    \/ B_DeleteMessage
    \/ \E s \in Slots : B_IntervalFires(s)
    \/ \E s \in Slots, k \in {"status", "refresh"} : B_Command(s, k)
    \/ \E s \in Slots, ok \in BOOLEAN : B_TokenAnswered(s, ok)
    \/ \E s \in Slots, st \in HttpStatuses, body \in HttpBodies : B_StatusAnswered(s, st, body)
    \/ \E s \in Slots, ok \in BOOLEAN : B_ChannelFetched(s, ok)
    \/ \E s \in Slots, found \in BOOLEAN : B_MsgFetched(s, found)
    \/ \E s \in Slots, ok \in BOOLEAN : B_MsgEdited(s, ok)
    \/ \E s \in Slots, ok \in BOOLEAN : B_MsgSent(s, ok)

SpecB == InitB /\ [][NextB]_vars

\* C4: getCurrentPlayback yields null only for a no-content (204) response: a
\* non-success response of the status endpoint is never mapped to null.
C4_IdleOnlyForNoContent ==
    \A s \in Slots :
        (handler[s].pc \in {"channel", "msgFetch", "msgEdit", "msgSend"}
            /\ handler[s].data = "null") => handler[s].http = 204

\* C22: once a cycle of updateStatus has created a message, the cycles that
\* begin after it edit that message as long as it exists and create no
\* further one: a cycle creates a message only when none of the messages
\* created before it began exists.
C22_OneCreatedMessage ==
    [][\A s \in Slots :
        (handler[s].pc = "msgSend" /\ handler'[s].pc = "idle"
            /\ created' # created)
          => messages \cap (1..handler[s].arg) = {} ]_vars

-----------------------------------------------------------------------------
(* Variant C (src/index.js 395-614): the token cache of variant A, a loop  *)
(* whose cycle has no catch, and a status kept for up to 5 s between       *)
(* fetches.                                                                *)

\* !lastSpotifyData ? 15000 : lastSpotifyData.is_playing ? 1000 : 5000
C_Interval(lsd) == IF lsd = "null" THEN 15000 ELSE IF lsd = "playing" THEN 1000 ELSE 5000

\* !spotifyAccessToken || Date.now() > spotifyAccessTokenExpiresAt
C_TokenStale == spotifyAccessToken = 0 \/ now > spotifyAccessTokenExpiresAt

\* scheduleNextUpdate(channel, messageId) with lastSpotifyData = lsd: the
\* pending timer is cleared and a new one is armed
C_scheduleNextUpdate(messageId, lsd) ==
    timers' = <<[messageId |-> messageId, delay |-> C_Interval(lsd)]>>

\* updateSpotifyMessage has returned ret to the timer callback, which calls
\* scheduleNextUpdate(channel, ret || messageId)
C_CycleDone(s, ret, lsd) ==
    /\ C_scheduleNextUpdate(IF ret # 0 THEN ret ELSE handler[s].arg, lsd)
    /\ handler' = [handler EXCEPT ![s] = Idle]
    /\ lastSpotifyData' = lsd

\* updateSpotifyMessage has thrown: the timer callback rejects before it
\* reaches scheduleNextUpdate
C_Throw(s) ==
    /\ handler' = [handler EXCEPT ![s] = Idle]
    /\ UNCHANGED <<timers, lastSpotifyData>>

\* getSpotifyAccessToken() called by handler s of kind k with argument a
C_getSpotifyAccessToken(s, k, a) ==
    IF C_TokenStale
    THEN /\ issued < MaxExchanges
         /\ issued' = issued + 1
         /\ handler' = [handler EXCEPT ![s] =
                [Idle EXCEPT !.pc = "token", !.kind = k, !.xid = issued + 1,
                             !.arg = a]]
    ELSE /\ issued' = issued
         /\ handler' = [handler EXCEPT ![s] =
                [Idle EXCEPT !.pc = IF k = "control" THEN "control" ELSE "status",
                             !.kind = k, !.tok = spotifyAccessToken, !.arg = a]]

InitC ==
    /\ variant = "C" /\ now = 0
    /\ spotifyAccessToken = 0 /\ spotifyAccessTokenExpiresAt = 0 /\ issued = 0
    /\ lastSpotifyData = "null"
    /\ timers = <<>> /\ connecting = TRUE /\ readyListener = TRUE
    /\ handler = [s \in Slots |-> Idle]
    /\ messages = {} /\ created = 0
    /\ storedMessageId = 0 /\ currentInterval = 0 /\ lastTrackId = 0
    /\ updateInterval = 0 /\ autoUpdates = TRUE /\ lastCycle = NoCycle
    /\ stopped = FALSE
    /\ NormIdle /\ ArtistIdle

\* client.once("ready"): registerCommands, channels.fetch, scheduleNextUpdate;
\* when registerCommands or the channel fetch fails the loop is never started
C_Ready ==
    /\ variant = "C" /\ connecting
    /\ connecting' = FALSE
    /\ readyListener' = FALSE
    /\ \/ C_scheduleNextUpdate(0, lastSpotifyData)
       \/ UNCHANGED timers
    /\ UNCHANGED <<variant, now, tokenVars, lastSpotifyData, handler,
                   discordVars, notC>>

\* the timer fires: updateSpotifyMessage(channel, messageId). The status is
\* fetched when none is kept or 5 s have passed since lastProgressUpdate
\* (always so after a delay of 5000 or more); otherwise the kept status is
\* advanced locally and reconciled
C_TimerFires(s, fresh) ==
    /\ variant = "C" /\ s = FreeSlot /\ timers # <<>>
    /\ fresh \in BOOLEAN
    /\ (lastSpotifyData = "null" \/ timers[1].delay >= 5000) => fresh
    /\ timers' = <<>>
    /\ IF fresh
       THEN C_getSpotifyAccessToken(s, "cycle", timers[1].messageId)
       ELSE /\ issued' = issued
            /\ handler' = [handler EXCEPT ![s] =
                   [Idle EXCEPT !.pc = IF timers[1].messageId # 0 THEN "msgFetch"
                                                                  ELSE "msgSend",
                                !.kind = "cycle", !.data = "track",
                                !.arg = timers[1].messageId]]
    /\ UNCHANGED <<variant, now, spotifyAccessToken, spotifyAccessTokenExpiresAt,
                   lastSpotifyData, connecting, readyListener, discordVars, notC>>

\* /spotifystatus: fetchSpotifyData; /skip: getSpotifyAccessToken and the
\* control call
C_Command(s, k) ==
    /\ variant = "C" /\ s = FreeSlot /\ ~connecting
    /\ k \in {"spotifystatus", "control"}
    /\ C_getSpotifyAccessToken(s, k, 0)
    /\ UNCHANGED <<variant, now, spotifyAccessToken, spotifyAccessTokenExpiresAt,
                   lastSpotifyData, loopVars, discordVars, notC>>

\* refreshSpotifyToken: the exchange is answered with a token
C_RefreshOk(s, e) ==
    /\ variant = "C" /\ handler[s].pc = "token"
    /\ spotifyAccessToken' = handler[s].xid
    /\ spotifyAccessTokenExpiresAt' = A_ExpiresAt(now, e)
    /\ handler' = [handler EXCEPT ![s] =
            [@ EXCEPT !.pc = IF handler[s].kind = "control" THEN "control" ELSE "status",
                      !.tok = handler[s].xid]]
    /\ UNCHANGED <<variant, now, issued, lastSpotifyData, loopVars,
                   discordVars, notC>>

\* refreshSpotifyToken throws: the response is not ok, or the request failed.
\* Nothing in updateSpotifyMessage or the timer callback catches it; /skip
\* catches and replies, /spotifystatus ends with an unhandled rejection
C_RefreshRejected(s) ==
    /\ variant = "C" /\ handler[s].pc = "token"
    /\ C_Throw(s)
    /\ UNCHANGED <<variant, now, tokenVars, connecting, readyListener,
                   discordVars, notC>>

\* fetchSpotifyData from the answer on, in a cycle: an error is thrown, null
\* or the track is stored in lastSpotifyData and reconciled
C_CycleStatus(s, r) ==
    /\ variant = "C" /\ handler[s].pc = "status" /\ handler[s].kind = "cycle"
    /\ r \in StatusAnswers
    /\ IF r = "error" THEN C_Throw(s)
       ELSE IF r \in {"204", "noitem"}
       THEN IF handler[s].arg # 0
            THEN /\ handler' = [handler EXCEPT ![s] =
                        [@ EXCEPT !.pc = "msgFetch", !.data = "null"]]
                 /\ lastSpotifyData' = "null"
                 /\ UNCHANGED timers
            ELSE C_CycleDone(s, 0, "null")
       ELSE /\ lastSpotifyData' = r
            /\ handler' = [handler EXCEPT ![s] =
                   [@ EXCEPT !.pc = IF handler[s].arg # 0 THEN "msgFetch"
                                                          ELSE "msgSend",
                             !.data = "track"]]
            /\ UNCHANGED timers
    /\ UNCHANGED <<variant, now, tokenVars, connecting, readyListener,
                   discordVars, notC>>

\* channel.messages.fetch(messageId).catch(() => null): the message; or null,
\* and then the idle branch returns messageId and the track branch throws
\* on msg.id
C_MsgFetched(s, found) ==
    /\ variant = "C" /\ handler[s].pc = "msgFetch"
    /\ found \in BOOLEAN
    /\ found => handler[s].arg \in messages
    /\ IF found
       THEN /\ handler' = [handler EXCEPT ![s] = [@ EXCEPT !.pc = "msgEdit"]]
            /\ UNCHANGED <<timers, lastSpotifyData>>
       ELSE IF handler[s].data = "null"
       THEN C_CycleDone(s, handler[s].arg, lastSpotifyData)
       ELSE C_Throw(s)
    /\ UNCHANGED <<variant, now, tokenVars, connecting, readyListener,
                   discordVars, notC>>

\* msg.edit(...) has ended: the id is returned, or the error is thrown
C_MsgEdited(s, ok) ==
    /\ variant = "C" /\ handler[s].pc = "msgEdit"
    /\ ok \in BOOLEAN
    /\ ok => handler[s].arg \in messages
    /\ IF ok THEN C_CycleDone(s, handler[s].arg, lastSpotifyData) ELSE C_Throw(s)
    /\ UNCHANGED <<variant, now, tokenVars, connecting, readyListener,
                   discordVars, notC>>

\* channel.send(...) has ended: a new message and its id, or an error
C_MsgSent(s, ok) ==
    /\ variant = "C" /\ handler[s].pc = "msgSend"
    /\ ok \in BOOLEAN
    /\ IF ok
       THEN /\ created < MaxMessages
            /\ created' = created + 1
            /\ messages' = messages \cup {created + 1}
            /\ C_CycleDone(s, created + 1, lastSpotifyData)
       ELSE /\ UNCHANGED discordVars
            /\ C_Throw(s)
    /\ UNCHANGED <<variant, now, tokenVars, connecting, readyListener, notC>>

\* a command is answered by the status or the control endpoint and replies
C_CommandReplied(s) ==
    /\ variant = "C" /\ handler[s].pc \in {"status", "control"}
    /\ handler[s].kind # "cycle"
    /\ C_Throw(s)
    /\ UNCHANGED <<variant, now, tokenVars, connecting, readyListener,
                   discordVars, notC>>

\* time passes; someone deletes a message of the channel
C_Tick == variant = "C" /\ Tick
C_DeleteMessage == variant = "C" /\ DeleteMessage

NextC ==
    \/ C_Tick
    \/ C_DeleteMessage
    \/ C_Ready
    \/ \E s \in Slots, fresh \in BOOLEAN : C_TimerFires(s, fresh)
    \/ \E s \in Slots, k \in {"spotifystatus", "control"} : C_Command(s, k)
    \/ \E s \in Slots, e \in ExpiresInValues : C_RefreshOk(s, e)
    \/ \E s \in Slots : C_RefreshRejected(s)
    \/ \E s \in Slots, r \in StatusAnswers : C_CycleStatus(s, r)
    \/ \E s \in Slots, found \in BOOLEAN : C_MsgFetched(s, found)
    \/ \E s \in Slots, ok \in BOOLEAN : C_MsgEdited(s, ok)
    \/ \E s \in Slots, ok \in BOOLEAN : C_MsgSent(s, ok)
    \/ \E s \in Slots : C_CommandReplied(s)

SpecC == InitC /\ [][NextC]_vars

\* C18: the loop has no terminal state: every cycle of updateSpotifyMessage,
\* whatever its outcome, is followed by scheduleNextUpdate, which arms the
\* timer of the next cycle.
C18_EveryCycleRearms ==
    [][\A s \in Slots :
        (handler[s].kind = "cycle" /\ handler'[s].pc = "idle") => timers' # <<>>
      ]_vars

\* C29: every cycle of updateSpotifyMessage asks the provider for the status
\* and reconciles the message from the answer: a cycle begins with the token
\* or the status request, never with the message and the status kept from an
\* earlier cycle.
C29_EveryCycleFetches ==
    [][\A s \in Slots :
        (handler[s].pc = "idle" /\ handler'[s].kind = "cycle")
          => handler'[s].pc \in {"token", "status"} ]_vars

-----------------------------------------------------------------------------
(* Variant I (src/unnamed/part_002): the status comes from the Discord     *)
(* presence; updateSpotifyStatus runs on an interval timer that            *)
(* startUpdating creates and stopUpdating clears.                          *)

\* the handle setInterval returns: one no active timer has
I_NewHandle == CHOOSE h \in 1..(MaxIntervals + 1) : \A i \in DOMAIN timers : timers[i].id # h

\* clearInterval(h)
I_clearInterval(h) == SelectSeq(timers, LAMBDA t : t.id # h)

\* updateInterval = setInterval(updateSpotifyStatus, intervalMs)
I_setInterval ==
    /\ Len(timers) < MaxIntervals
    /\ timers' = Append(timers, [id |-> I_NewHandle, delay |-> 15000])
    /\ updateInterval' = I_NewHandle

\* updateSpotifyStatus() called by a handler of kind k: it returns at once
\* when no message id is stored, else it fetches the channel
I_updateSpotifyStatus(s, k) ==
    handler' = [handler EXCEPT ![s] = [Idle EXCEPT !.pc = "channel", !.kind = k]]

\* startUpdating(): nothing when updateInterval is set; else the first update
\* is awaited and then the interval timer is created. With no message id
\* stored the update returns at once and the timer is created right away
I_startUpdating(s) ==
    IF updateInterval # 0 THEN UNCHANGED <<handler, timers, updateInterval>>
    ELSE IF storedMessageId = 0 THEN I_setInterval /\ UNCHANGED handler
    ELSE /\ s # 0
         /\ I_updateSpotifyStatus(s, "start")
         /\ UNCHANGED <<timers, updateInterval>>

\* stopUpdating(): nothing when updateInterval is null; else the timer it
\* names is cleared
I_stopUpdating ==
    IF updateInterval = 0 THEN UNCHANGED <<timers, updateInterval>>
    ELSE /\ timers' = I_clearInterval(updateInterval)
         /\ updateInterval' = 0

\* updateSpotifyStatus has returned (or caught its error): the interval
\* callback and /refresh end, startUpdating goes on to setInterval
I_Updated(s) ==
    /\ handler' = [handler EXCEPT ![s] = Idle]
    /\ IF handler[s].kind = "start" THEN I_setInterval
       ELSE UNCHANGED <<timers, updateInterval>>

\* storedMessageId = process.env.MESSAGE_ID || null
InitI ==
    /\ variant = "I" /\ now = 0
    /\ spotifyAccessToken = 0 /\ spotifyAccessTokenExpiresAt = 0 /\ issued = 0
    /\ lastSpotifyData = "null"
    /\ timers = <<>> /\ connecting = TRUE /\ readyListener = TRUE
    /\ handler = [s \in Slots |-> Idle]
    /\ \/ storedMessageId = 0 /\ created = 0 /\ messages = {}
       \/ storedMessageId = 1 /\ created = 1 /\ messages \in {{}, {1}}
    /\ currentInterval = 0 /\ lastTrackId = 0
    /\ updateInterval = 0 /\ autoUpdates = TRUE /\ lastCycle = NoCycle
    /\ stopped = FALSE
    /\ NormIdle /\ ArtistIdle

\* 'ready': the listener, registered with client.once, awaits
\* registerCommands (which catches its errors) and calls startUpdating()
I_Ready ==
    /\ variant = "I" /\ connecting
    /\ connecting' = FALSE
    /\ readyListener' = FALSE
    /\ IF readyListener
       THEN I_startUpdating(FreeSlot) /\ stopped' = FALSE
       ELSE UNCHANGED <<handler, timers, updateInterval, stopped>>
    /\ UNCHANGED <<storedMessageId, discordVars, variant, notI>>

\* /start: startUpdating() and a reply
I_Start ==
    /\ variant = "I" /\ ~connecting
    /\ I_startUpdating(FreeSlot)
    /\ stopped' = FALSE
    /\ UNCHANGED <<connecting, readyListener, storedMessageId, discordVars,
                   variant, notI>>

\* /stop: stopUpdating() and a reply
I_Stop ==
    /\ variant = "I" /\ ~connecting
    /\ I_stopUpdating
    /\ stopped' = TRUE
    /\ UNCHANGED <<handler, connecting, readyListener, storedMessageId,
                   discordVars, variant, notI>>

\* /restart: stopUpdating(), client.destroy(), client.login()
I_Restart ==
    /\ variant = "I" /\ ~connecting
    /\ I_stopUpdating
    /\ stopped' = TRUE
    /\ connecting' = TRUE
    /\ UNCHANGED <<handler, readyListener, storedMessageId, discordVars,
                   variant, notI>>

\* an interval timer fires: updateSpotifyStatus()
I_IntervalFires(s) ==
    /\ variant = "I" /\ s = FreeSlot /\ timers # <<>>
    /\ IF storedMessageId = 0 THEN UNCHANGED handler
       ELSE I_updateSpotifyStatus(s, "cycle")
    /\ UNCHANGED <<timers, updateInterval, stopped, connecting, readyListener,
                   storedMessageId, discordVars, variant, notI>>

\* /refresh awaits updateSpotifyStatus(); /setembed (with the role) fetches
\* the activity and sends a message
I_Command(s, k) ==
    /\ variant = "I" /\ s = FreeSlot /\ ~connecting
    /\ k \in {"refresh", "setembed"}
    /\ IF k = "refresh"
       THEN storedMessageId # 0 /\ I_updateSpotifyStatus(s, "refresh")
       ELSE handler' = [handler EXCEPT ![s] =
                [Idle EXCEPT !.pc = "activity", !.kind = "setembed"]]
    /\ UNCHANGED <<timers, updateInterval, stopped, connecting, readyListener,
                   storedMessageId, discordVars, variant, notI>>

\* client.channels.fetch(CHANNEL_ID): the channel, and the message is
\* fetched; or null or an error, and updateSpotifyStatus returns
I_ChannelFetched(s, ok) ==
    /\ variant = "I" /\ handler[s].pc = "channel"
    /\ ok \in BOOLEAN
    /\ IF ok
       THEN /\ handler' = [handler EXCEPT ![s] =
                   [@ EXCEPT !.pc = "msgFetch", !.arg = storedMessageId]]
            /\ UNCHANGED <<timers, updateInterval>>
       ELSE I_Updated(s)
    /\ UNCHANGED <<stopped, connecting, readyListener, storedMessageId,
                   discordVars, variant, notI>>

\* channel.messages.fetch(storedMessageId): the message, and the activity is
\* fetched; or an error, which is caught
I_MsgFetched(s, found) ==
    /\ variant = "I" /\ handler[s].pc = "msgFetch"
    /\ found \in BOOLEAN
    /\ found => handler[s].arg \in messages
    /\ IF found
       THEN /\ handler' = [handler EXCEPT ![s] = [@ EXCEPT !.pc = "activity"]]
            /\ UNCHANGED <<timers, updateInterval>>
       ELSE I_Updated(s)
    /\ UNCHANGED <<stopped, connecting, readyListener, storedMessageId,
                   discordVars, variant, notI>>

\* fetchSpotifyActivity(): the activity, or null (none, or an error caught)
I_ActivityFetched(s, r) ==
    /\ variant = "I" /\ handler[s].pc = "activity"
    /\ r \in {"track", "null"}
    /\ handler' = [handler EXCEPT ![s] =
            [@ EXCEPT !.pc = IF handler[s].kind = "setembed" THEN "msgSend" ELSE "msgEdit",
                      !.data = r]]
    /\ UNCHANGED <<timers, updateInterval, stopped, connecting, readyListener,
                   storedMessageId, discordVars, variant, notI>>

\* message.edit: done, or an error, which is caught
I_MsgEdited(s, ok) ==
    /\ variant = "I" /\ handler[s].pc = "msgEdit"
    /\ ok \in BOOLEAN
    /\ ok => handler[s].arg \in messages
    /\ I_Updated(s)
    /\ UNCHANGED <<stopped, connecting, readyListener, storedMessageId,
                   discordVars, variant, notI>>

\* /setembed: channel.send, the id of the new message is stored; or an error
I_MsgSent(s, ok) ==
    /\ variant = "I" /\ handler[s].pc = "msgSend"
    /\ ok \in BOOLEAN
    /\ IF ok
       THEN /\ created < MaxMessages
            /\ created' = created + 1
            /\ messages' = messages \cup {created + 1}
            /\ storedMessageId' = created + 1
       ELSE UNCHANGED <<discordVars, storedMessageId>>
    /\ handler' = [handler EXCEPT ![s] = Idle]
    /\ UNCHANGED <<timers, updateInterval, stopped, connecting, readyListener,
                   variant, notI>>

\* someone deletes a message of the channel
I_DeleteMessage == variant = "I" /\ DeleteMessage

NextI ==
    \/ I_DeleteMessage
    \/ I_Ready
    \/ I_Start
    \/ I_Stop
    \/ I_Restart
    \/ \E s \in Slots : I_IntervalFires(s)
    \/ \E s \in Slots, k \in {"refresh", "setembed"} : I_Command(s, k)
    \/ \E s \in Slots, ok \in BOOLEAN : I_ChannelFetched(s, ok)
    \/ \E s \in Slots, found \in BOOLEAN : I_MsgFetched(s, found)
    \/ \E s \in Slots, r \in {"track", "null"} : I_ActivityFetched(s, r)
    \/ \E s \in Slots, ok \in BOOLEAN : I_MsgEdited(s, ok)
    \/ \E s \in Slots, ok \in BOOLEAN : I_MsgSent(s, ok)

SpecI == InitI /\ [][NextI]_vars

\* C12: once stopUpdating has returned and startUpdating was not called
\* since, no cycle of updateSpotifyStatus begins (a cycle in flight may
\* finish), also when the stop came while a startUpdating call was awaiting
\* its first update.
C12_NoCycleAfterStop ==
    [][stopped =>
         \A s \in Slots : ~(handler[s].kind # "cycle" /\ handler'[s].kind = "cycle")
      ]_vars

-----------------------------------------------------------------------------
(* Variant D (src/index.js 616-855): as variant I without the text         *)
(* normalisation; startUpdating (745-750), stopUpdating (752-757) and       *)
(* updateSpotifyStatus (721-742) are the same code, and the definitions of  *)
(* variant I for them are used.                                             *)

\* storedMessageId = process.env.MESSAGE_ID || null
InitD ==
    /\ variant = "D" /\ now = 0
    /\ spotifyAccessToken = 0 /\ spotifyAccessTokenExpiresAt = 0 /\ issued = 0
    /\ lastSpotifyData = "null"
    /\ timers = <<>> /\ connecting = TRUE /\ readyListener = TRUE
    /\ handler = [s \in Slots |-> Idle]
    /\ \/ storedMessageId = 0 /\ created = 0 /\ messages = {}
       \/ storedMessageId = 1 /\ created = 1 /\ messages \in {{}, {1}}
    /\ currentInterval = 0 /\ lastTrackId = 0
    /\ updateInterval = 0 /\ autoUpdates = TRUE /\ lastCycle = NoCycle
    /\ stopped = FALSE
    /\ NormIdle /\ ArtistIdle

\* 'ready': the listener, registered with client.once, awaits
\* registerCommands (which catches its errors) and calls startUpdating()
D_Ready ==
    /\ variant = "D" /\ connecting
    /\ connecting' = FALSE
    /\ readyListener' = FALSE
    /\ IF readyListener
       THEN I_startUpdating(FreeSlot) /\ stopped' = FALSE
       ELSE UNCHANGED <<handler, timers, updateInterval, stopped>>
    /\ UNCHANGED <<storedMessageId, discordVars, variant, notI>>

\* /start: startUpdating() and a reply
D_Start ==
    /\ variant = "D" /\ ~connecting
    /\ I_startUpdating(FreeSlot)
    /\ stopped' = FALSE
    /\ UNCHANGED <<connecting, readyListener, storedMessageId, discordVars,
                   variant, notI>>

\* /stop: stopUpdating() and a reply
D_Stop ==
    /\ variant = "D" /\ ~connecting
    /\ I_stopUpdating
    /\ stopped' = TRUE
    /\ UNCHANGED <<handler, connecting, readyListener, storedMessageId,
                   discordVars, variant, notI>>

\* /restart: stopUpdating(), client.destroy(), client.login()
D_Restart ==
    /\ variant = "D" /\ ~connecting
    /\ I_stopUpdating
    /\ stopped' = TRUE
    /\ connecting' = TRUE
    /\ UNCHANGED <<handler, readyListener, storedMessageId, discordVars,
                   variant, notI>>

\* an interval timer fires: updateSpotifyStatus()
D_IntervalFires(s) ==
    /\ variant = "D" /\ s = FreeSlot /\ timers # <<>>
    /\ IF storedMessageId = 0 THEN UNCHANGED handler
       ELSE I_updateSpotifyStatus(s, "cycle")
    /\ UNCHANGED <<timers, updateInterval, stopped, connecting, readyListener,
                   storedMessageId, discordVars, variant, notI>>

\* /refresh awaits updateSpotifyStatus(); /setembed (with the role) fetches
\* the activity and sends a message
D_Command(s, k) ==
    /\ variant = "D" /\ s = FreeSlot /\ ~connecting
    /\ k \in {"refresh", "setembed"}
    /\ IF k = "refresh"
       THEN storedMessageId # 0 /\ I_updateSpotifyStatus(s, "refresh")
       ELSE handler' = [handler EXCEPT ![s] =
                [Idle EXCEPT !.pc = "activity", !.kind = "setembed"]]
    /\ UNCHANGED <<timers, updateInterval, stopped, connecting, readyListener,
                   storedMessageId, discordVars, variant, notI>>

\* client.channels.fetch(CHANNEL_ID): the channel, and the message is
\* fetched; or null or an error, and updateSpotifyStatus returns
D_ChannelFetched(s, ok) ==
    /\ variant = "D" /\ handler[s].pc = "channel"
    /\ ok \in BOOLEAN
    /\ IF ok
       THEN /\ handler' = [handler EXCEPT ![s] =
                   [@ EXCEPT !.pc = "msgFetch", !.arg = storedMessageId]]
            /\ UNCHANGED <<timers, updateInterval>>
       ELSE I_Updated(s)
    /\ UNCHANGED <<stopped, connecting, readyListener, storedMessageId,
                   discordVars, variant, notI>>

\* channel.messages.fetch(storedMessageId): the message, and the activity is
\* fetched; or an error, which is caught
D_MsgFetched(s, found) ==
    /\ variant = "D" /\ handler[s].pc = "msgFetch"
    /\ found \in BOOLEAN
    /\ found => handler[s].arg \in messages
    /\ IF found
       THEN /\ handler' = [handler EXCEPT ![s] = [@ EXCEPT !.pc = "activity"]]
            /\ UNCHANGED <<timers, updateInterval>>
       ELSE I_Updated(s)
    /\ UNCHANGED <<stopped, connecting, readyListener, storedMessageId,
                   discordVars, variant, notI>>

\* fetchSpotifyActivity(): the activity, or null (none, or an error caught)
D_ActivityFetched(s, r) ==
    /\ variant = "D" /\ handler[s].pc = "activity"
    /\ r \in {"track", "null"}
    /\ handler' = [handler EXCEPT ![s] =
            [@ EXCEPT !.pc = IF handler[s].kind = "setembed" THEN "msgSend" ELSE "msgEdit",
                      !.data = r]]
    /\ UNCHANGED <<timers, updateInterval, stopped, connecting, readyListener,
                   storedMessageId, discordVars, variant, notI>>

\* message.edit: done, or an error, which is caught
D_MsgEdited(s, ok) ==
    /\ variant = "D" /\ handler[s].pc = "msgEdit"
    /\ ok \in BOOLEAN
    /\ ok => handler[s].arg \in messages
    /\ I_Updated(s)
    /\ UNCHANGED <<stopped, connecting, readyListener, storedMessageId,
                   discordVars, variant, notI>>

\* /setembed: channel.send, the id of the new message is stored; or an error
D_MsgSent(s, ok) ==
    /\ variant = "D" /\ handler[s].pc = "msgSend"
    /\ ok \in BOOLEAN
    /\ IF ok
       THEN /\ created < MaxMessages
            /\ created' = created + 1
            /\ messages' = messages \cup {created + 1}
            /\ storedMessageId' = created + 1
       ELSE UNCHANGED <<discordVars, storedMessageId>>
    /\ handler' = [handler EXCEPT ![s] = Idle]
    /\ UNCHANGED <<timers, updateInterval, stopped, connecting, readyListener,
                   variant, notI>>

\* someone deletes a message of the channel
D_DeleteMessage == variant = "D" /\ DeleteMessage

NextD ==
    \/ D_DeleteMessage
    \/ D_Ready
    \/ D_Start
    \/ D_Stop
    \/ D_Restart
    \/ \E s \in Slots : D_IntervalFires(s)
    \/ \E s \in Slots, k \in {"refresh", "setembed"} : D_Command(s, k)
    \/ \E s \in Slots, ok \in BOOLEAN : D_ChannelFetched(s, ok)
    \/ \E s \in Slots, found \in BOOLEAN : D_MsgFetched(s, found)
    \/ \E s \in Slots, r \in {"track", "null"} : D_ActivityFetched(s, r)
    \/ \E s \in Slots, ok \in BOOLEAN : D_MsgEdited(s, ok)
    \/ \E s \in Slots, ok \in BOOLEAN : D_MsgSent(s, ok)

SpecD == InitD /\ [][NextD]_vars

\* C34: at most one interval timer is active at any time, whatever the
\* interleaving of the startUpdating calls of 'ready' and of /start: no
\* second setInterval is made while a timer is active.
C34_OneIntervalTimer == Len(timers) <= 1

-----------------------------------------------------------------------------
(* Variant K (src/unnamed/part_004): updateSpotifyStatus runs once at      *)
(* 'ready' and then on a 60 s interval timer; lastMessageId (here          *)
(* storedMessageId, 0 for null) names the message it edits.                *)

\* answers of the token endpoint: ok with a token, not ok (null is returned),
\* or no answer at all (fetch rejects)
K_TokenAnswers == {"token", "rejected", "throw"}

\* answers of the currently-playing endpoint: a track, 204/202 or not ok
\* (both give null), or no answer at all
K_StatusAnswers == {"track", "null", "throw"}

\* the update has returned, or rejected with nobody awaiting it
K_End(s) == handler' = [handler EXCEPT ![s] = Idle]

\* updateSpotifyStatus(): the token is asked for
K_updateSpotifyStatus(s) ==
    handler' = [handler EXCEPT ![s] = [Idle EXCEPT !.pc = "token", !.kind = "cycle"]]

\* let lastMessageId = null
InitK ==
    /\ variant = "K" /\ now = 0
    /\ spotifyAccessToken = 0 /\ spotifyAccessTokenExpiresAt = 0 /\ issued = 0
    /\ lastSpotifyData = "null"
    /\ timers = <<>> /\ connecting = TRUE /\ readyListener = TRUE
    /\ handler = [s \in Slots |-> Idle]
    /\ messages = {} /\ created = 0
    /\ storedMessageId = 0 /\ currentInterval = 0 /\ lastTrackId = 0
    /\ updateInterval = 0 /\ autoUpdates = TRUE /\ lastCycle = NoCycle
    /\ stopped = FALSE
    /\ NormIdle /\ ArtistIdle

\* 'ready': updateSpotifyStatus() and setInterval(updateSpotifyStatus, 60_000)
K_Ready ==
    /\ variant = "K" /\ connecting
    /\ connecting' = FALSE
    /\ K_updateSpotifyStatus(FreeSlot)
    /\ timers' = <<[messageId |-> 0, delay |-> 60000]>>
    /\ UNCHANGED <<storedMessageId, discordVars, variant, notK>>

\* the interval timer fires: updateSpotifyStatus()
K_IntervalFires(s) ==
    /\ variant = "K" /\ s = FreeSlot /\ timers # <<>>
    /\ K_updateSpotifyStatus(s)
    /\ UNCHANGED <<timers, connecting, storedMessageId, discordVars, variant, notK>>

\* getAccessToken() is answered: without a token the update returns
K_TokenAnswered(s, a) ==
    /\ variant = "K" /\ handler[s].pc = "token"
    /\ a \in K_TokenAnswers
    /\ IF a = "token"
       THEN handler' = [handler EXCEPT ![s] = [@ EXCEPT !.pc = "status"]]
       ELSE K_End(s)
    /\ UNCHANGED <<timers, connecting, storedMessageId, discordVars, variant, notK>>

\* getCurrentTrack() is answered, the embed is built and the channel asked for
K_StatusAnswered(s, r) ==
    /\ variant = "K" /\ handler[s].pc = "status"
    /\ r \in K_StatusAnswers
    /\ IF r = "throw" THEN K_End(s)
       ELSE handler' = [handler EXCEPT ![s] = [@ EXCEPT !.pc = "channel", !.data = r]]
    /\ UNCHANGED <<timers, connecting, storedMessageId, discordVars, variant, notK>>

\* client.channels.fetch(CHANNEL_ID): without a channel the update ends; with
\* it, `if (lastMessageId)` chooses between messages.fetch and channel.send
K_ChannelFetched(s, ok) ==
    /\ variant = "K" /\ handler[s].pc = "channel"
    /\ ok \in BOOLEAN
    /\ IF ~ok THEN K_End(s)
       ELSE handler' = [handler EXCEPT ![s] =
               [@ EXCEPT !.pc = IF storedMessageId # 0 THEN "msgFetch" ELSE "msgSend",
                         !.arg = storedMessageId]]
    /\ UNCHANGED <<timers, connecting, storedMessageId, discordVars, variant, notK>>

\* channel.messages.fetch(lastMessageId): the message, which is then edited;
\* or an error, which the catch logs
K_MsgFetched(s, found) ==
    /\ variant = "K" /\ handler[s].pc = "msgFetch"
    /\ found \in BOOLEAN
    /\ found => handler[s].arg \in messages
    /\ IF found
       THEN handler' = [handler EXCEPT ![s] = [@ EXCEPT !.pc = "msgEdit"]]
       ELSE K_End(s)
    /\ UNCHANGED <<timers, connecting, storedMessageId, discordVars, variant, notK>>

\* lastMessage.edit: done, or an error, which the catch logs
K_MsgEdited(s, ok) ==
    /\ variant = "K" /\ handler[s].pc = "msgEdit"
    /\ ok \in BOOLEAN
    /\ ok => handler[s].arg \in messages
    /\ K_End(s)
    /\ UNCHANGED <<timers, connecting, storedMessageId, discordVars, variant, notK>>

\* channel.send: lastMessageId = msg.id; or an error, which the catch logs
K_MsgSent(s, ok) ==
    /\ variant = "K" /\ handler[s].pc = "msgSend"
    /\ ok \in BOOLEAN
    /\ IF ok
       THEN /\ created < MaxMessages
            /\ created' = created + 1
            /\ messages' = messages \cup {created + 1}
            /\ storedMessageId' = created + 1
       ELSE UNCHANGED <<discordVars, storedMessageId>>
    /\ K_End(s)
    /\ UNCHANGED <<timers, connecting, variant, notK>>

\* someone deletes a message of the channel
K_DeleteMessage == variant = "K" /\ DeleteMessage

NextK ==
    \/ K_DeleteMessage
    \/ K_Ready
    \/ \E s \in Slots : K_IntervalFires(s)
    \/ \E s \in Slots, a \in K_TokenAnswers : K_TokenAnswered(s, a)
    \/ \E s \in Slots, r \in K_StatusAnswers : K_StatusAnswered(s, r)
    \/ \E s \in Slots, ok \in BOOLEAN : K_ChannelFetched(s, ok)
    \/ \E s \in Slots, found \in BOOLEAN : K_MsgFetched(s, found)
    \/ \E s \in Slots, ok \in BOOLEAN : K_MsgEdited(s, ok)
    \/ \E s \in Slots, ok \in BOOLEAN : K_MsgSent(s, ok)

SpecK == InitK /\ [][NextK]_vars

\* The loop of variant K with a timer that keeps firing and remote services
\* that keep answering: every request is answered, and a request that is
\* made again and again is again and again answered with success.
K_Fairness ==
    /\ WF_vars(K_Ready)
    /\ WF_vars(\E s \in Slots : K_IntervalFires(s))
    /\ \A s \in Slots :
        /\ WF_vars(\E a \in K_TokenAnswers : K_TokenAnswered(s, a))
        /\ WF_vars(\E r \in K_StatusAnswers : K_StatusAnswered(s, r))
        /\ WF_vars(\E ok \in BOOLEAN : K_ChannelFetched(s, ok))
        /\ WF_vars(\E found \in BOOLEAN : K_MsgFetched(s, found))
        /\ WF_vars(\E ok \in BOOLEAN : K_MsgEdited(s, ok))
        /\ WF_vars(\E ok \in BOOLEAN : K_MsgSent(s, ok))
        /\ SF_vars(K_TokenAnswered(s, "token"))
        /\ SF_vars(K_StatusAnswered(s, "track"))
        /\ SF_vars(K_ChannelFetched(s, TRUE))
        /\ SF_vars(K_MsgFetched(s, TRUE))
        /\ SF_vars(K_MsgEdited(s, TRUE))
        /\ SF_vars(K_MsgSent(s, TRUE))

SpecKLive == SpecK /\ K_Fairness

\* lastMessageId names a message that was deleted
K_Gone == storedMessageId # 0 /\ storedMessageId \notin messages

\* C20: when the message lastMessageId names has been deleted, a later cycle
\* sends a replacement and stores its id, so that lastMessageId names a
\* message that exists again.
C20_SelfHealing == K_Gone ~> (storedMessageId # 0 /\ storedMessageId \in messages)

-----------------------------------------------------------------------------
(* Variant H (src/unnamed/part_001 270-565): the token cache of variant A, *)
(* a fetchSpotifyData that catches every error and returns null, and an    *)
(* updateSpotifyMessage without a catch; currentMessageId (here            *)
(* storedMessageId, 0 for null) names the status message.                  *)

\* scheduleNextUpdate(channel) with lastSpotifyData = lsd
H_scheduleNextUpdate(lsd) ==
    timers' = Append(timers, [messageId |-> 0, delay |-> C_Interval(lsd)])

\* updateSpotifyMessage has returned: the timer callback calls
\* scheduleNextUpdate with lastSpotifyData = lsd; a command handler ends
H_Done(s, lsd) ==
    /\ handler' = [handler EXCEPT ![s] = Idle]
    /\ IF handler[s].kind = "cycle" THEN H_scheduleNextUpdate(lsd)
       ELSE UNCHANGED timers

\* updateSpotifyMessage has thrown: the timer callback rejects before it
\* reaches scheduleNextUpdate; a command handler ends
H_Throw(s) ==
    /\ handler' = [handler EXCEPT ![s] = Idle]
    /\ UNCHANGED timers

\* getSpotifyAccessToken() called by handler s of kind k with argument a
H_getSpotifyAccessToken(s, k, a) ==
    IF A_TokenStale
    THEN /\ issued < MaxExchanges
         /\ issued' = issued + 1
         /\ handler' = [handler EXCEPT ![s] =
                [Idle EXCEPT !.pc = "token", !.kind = k, !.xid = issued + 1,
                             !.arg = a]]
    ELSE /\ issued' = issued
         /\ handler' = [handler EXCEPT ![s] =
                [Idle EXCEPT !.pc = IF k = "control" THEN "control" ELSE "status",
                             !.kind = k, !.tok = spotifyAccessToken, !.arg = a]]

\* fetchSpotifyData has returned to updateSpotifyMessage: data is "null" or
\* "track", lsd what lastSpotifyData becomes, got what the fetch met
\* ("idle": 204 or no item, "error": the catch, "track"). Without data the
\* message, if there is one, is fetched to be shown as idle
H_Fetched(s, data, lsd, got) ==
    /\ lastSpotifyData' = lsd
    /\ IF data = "null" /\ handler[s].arg = 0
       THEN H_Done(s, lsd)
       ELSE /\ handler' = [handler EXCEPT ![s] =
                   [@ EXCEPT !.pc = IF handler[s].arg # 0 THEN "msgFetch" ELSE "msgSend",
                             !.data = data, !.obs = got, !.tok = 0, !.xid = 0]]
            /\ UNCHANGED timers

InitH ==
    /\ variant = "H" /\ now = 0
    /\ spotifyAccessToken = 0 /\ spotifyAccessTokenExpiresAt = 0 /\ issued = 0
    /\ lastSpotifyData = "null"
    /\ timers = <<>> /\ connecting = TRUE /\ readyListener = TRUE
    /\ handler = [s \in Slots |-> Idle]
    /\ messages = {} /\ created = 0
    /\ storedMessageId = 0 /\ currentInterval = 0 /\ lastTrackId = 0
    /\ updateInterval = 0 /\ autoUpdates = TRUE /\ lastCycle = NoCycle
    /\ stopped = FALSE
    /\ NormIdle /\ ArtistIdle

\* client.once("ready"): registerCommands, channels.fetch, scheduleNextUpdate;
\* when registerCommands or the channel fetch fails the loop is never started
H_Ready ==
    /\ variant = "H" /\ connecting
    /\ connecting' = FALSE
    /\ readyListener' = FALSE
    /\ \/ H_scheduleNextUpdate(lastSpotifyData)
       \/ UNCHANGED timers
    /\ UNCHANGED <<variant, now, tokenVars, lastSpotifyData, handler,
                   discordVars, storedMessageId, notH>>

\* the timer fires: updateSpotifyMessage(channel, currentMessageId), which
\* calls fetchSpotifyData, which calls getSpotifyAccessToken
H_TimerFires(s) ==
    /\ variant = "H" /\ s = FreeSlot
    /\ \E i \in DOMAIN timers :
          timers' = SubSeq(timers, 1, i - 1) \o SubSeq(timers, i + 1, Len(timers))
    /\ H_getSpotifyAccessToken(s, "cycle", storedMessageId)
    /\ UNCHANGED <<variant, now, spotifyAccessToken, spotifyAccessTokenExpiresAt,
                   lastSpotifyData, connecting, readyListener, discordVars,
                   storedMessageId, notH>>

\* the answers to the control request of /skip: a success status, a status
\* that is not a success, no response (fetch rejects)
H_SkipAnswers == {"ok", "rejected", "throw"}

\* /skip replies content to the initiator; call is how the control request
\* was answered ("none": it was not sent)
H_SkipReply(s, content, call) ==
    handler' = [handler EXCEPT ![s] =
        [Idle EXCEPT !.pc = "reply", !.kind = "control", !.data = content,
                     !.obs = call]]

\* /spotifystatus: fetchSpotifyData; /skip: getSpotifyAccessToken and the
\* control call
H_Command(s, k) ==
    /\ variant = "H" /\ s = FreeSlot /\ ~connecting
    /\ k \in {"spotifystatus", "control"}
    /\ H_getSpotifyAccessToken(s, k, 0)
    /\ UNCHANGED <<variant, now, spotifyAccessToken, spotifyAccessTokenExpiresAt,
                   lastSpotifyData, loopVars, discordVars, storedMessageId, notH>>

\* /sendspotify: the channel is fetched and createEmbed(lastSpotifyData) sent
H_SendSpotify(s) ==
    /\ variant = "H" /\ s = FreeSlot /\ ~connecting
    /\ handler' = [handler EXCEPT ![s] =
            [Idle EXCEPT !.pc = "msgSend", !.kind = "sendspotify"]]
    /\ UNCHANGED <<variant, now, tokenVars, lastSpotifyData, loopVars,
                   discordVars, storedMessageId, notH>>

\* refreshSpotifyToken: the exchange is answered with a token
H_RefreshOk(s, e) ==
    /\ variant = "H" /\ handler[s].pc = "token"
    /\ A_storeToken(handler[s].xid, e)
    /\ handler' = [handler EXCEPT ![s] =
            [@ EXCEPT !.pc = IF handler[s].kind = "control" THEN "control" ELSE "status",
                      !.tok = handler[s].xid, !.xid = 0]]
    /\ UNCHANGED <<variant, now, issued, lastSpotifyData, loopVars,
                   discordVars, storedMessageId, notH>>

\* refreshSpotifyToken throws: the response is not ok, or the request failed.
\* fetchSpotifyData catches and returns null; /skip catches and replies
H_RefreshRejected(s) ==
    /\ variant = "H" /\ handler[s].pc = "token"
    /\ IF handler[s].kind = "cycle"
       THEN H_Fetched(s, "null", "null", "error")
       ELSE IF handler[s].kind = "control"
       THEN /\ H_SkipReply(s, "failed", "none")
            /\ UNCHANGED <<timers, lastSpotifyData>>
       ELSE H_Throw(s) /\ UNCHANGED lastSpotifyData
    /\ UNCHANGED <<variant, now, tokenVars, connecting, readyListener,
                   discordVars, storedMessageId, notH>>

\* fetchSpotifyData from the answer on, in a cycle: 204 and a body without
\* item give null, an error (a status that is not ok, or no answer) is caught
\* and gives null, a track is returned; lastSpotifyData = data
H_CycleStatus(s, r) ==
    /\ variant = "H" /\ handler[s].pc = "status" /\ handler[s].kind = "cycle"
    /\ r \in StatusAnswers
    /\ IF r = "error" THEN H_Fetched(s, "null", "null", "error")
       ELSE IF r \in {"204", "noitem"} THEN H_Fetched(s, "null", "null", "idle")
       ELSE H_Fetched(s, "track", r, "track")
    /\ UNCHANGED <<variant, now, tokenVars, connecting, readyListener,
                   discordVars, storedMessageId, notH>>

\* channel.messages.fetch(messageId).catch(() => null): the message, which is
\* then edited; or null, and then the idle branch returns and the track
\* branch sends
H_MsgFetched(s, found) ==
    /\ variant = "H" /\ handler[s].pc = "msgFetch"
    /\ found \in BOOLEAN
    /\ found => handler[s].arg \in messages
    /\ IF found
       THEN /\ handler' = [handler EXCEPT ![s] = [@ EXCEPT !.pc = "msgEdit"]]
            /\ UNCHANGED timers
       ELSE IF handler[s].data = "null"
       THEN H_Done(s, lastSpotifyData)
       ELSE /\ handler' = [handler EXCEPT ![s] = [@ EXCEPT !.pc = "msgSend"]]
            /\ UNCHANGED timers
    /\ UNCHANGED <<variant, now, tokenVars, lastSpotifyData, connecting,
                   readyListener, discordVars, storedMessageId, notH>>

\* msg.edit(...) has ended: with a track currentMessageId = msg.id; an error
\* is thrown out of updateSpotifyMessage
H_MsgEdited(s, ok) ==
    /\ variant = "H" /\ handler[s].pc = "msgEdit"
    /\ ok \in BOOLEAN
    /\ ok => handler[s].arg \in messages
    /\ IF ok
       THEN /\ H_Done(s, lastSpotifyData)
            /\ storedMessageId' = IF handler[s].data = "null" THEN storedMessageId
                                                              ELSE handler[s].arg
       ELSE H_Throw(s) /\ UNCHANGED storedMessageId
    /\ UNCHANGED <<variant, now, tokenVars, lastSpotifyData, connecting,
                   readyListener, discordVars, notH>>

\* channel.send(...) has ended: a new message, currentMessageId = msg.id; or
\* an error, which is thrown
H_MsgSent(s, ok) ==
    /\ variant = "H" /\ handler[s].pc = "msgSend"
    /\ ok \in BOOLEAN
    /\ IF ok
       THEN /\ created < MaxMessages
            /\ created' = created + 1
            /\ messages' = messages \cup {created + 1}
            /\ storedMessageId' = created + 1
            /\ H_Done(s, lastSpotifyData)
       ELSE /\ UNCHANGED <<discordVars, storedMessageId>>
            /\ H_Throw(s)
    /\ UNCHANGED <<variant, now, tokenVars, lastSpotifyData, connecting,
                   readyListener, notH>>

\* /skip: the control request is answered. fetch resolves with the response
\* whatever its status (204, or 401, 403, 404, 429) and the response is not
\* looked at: "Skipped to the next track." is replied; fetch rejects when the
\* request failed: the catch replies "Failed to skip track."
H_SkipAnswered(s, r) ==
    /\ variant = "H" /\ handler[s].pc = "control"
    /\ r \in H_SkipAnswers
    /\ H_SkipReply(s, IF r = "throw" THEN "failed" ELSE "skipped", r)
    /\ UNCHANGED <<variant, now, tokenVars, lastSpotifyData, loopVars,
                   discordVars, storedMessageId, notH>>

\* /skip: interaction.reply is answered. The reply of the try is inside the
\* try: when it throws the catch replies "Failed to skip track."; when the
\* reply of the catch throws the handler ends with an unhandled rejection
H_SkipReplied(s, ok) ==
    /\ variant = "H" /\ handler[s].pc = "reply"
    /\ ok \in BOOLEAN
    /\ IF ~ok /\ handler[s].data = "skipped"
       THEN H_SkipReply(s, "failed", handler[s].obs) /\ UNCHANGED timers
       ELSE H_Throw(s)
    /\ UNCHANGED <<variant, now, tokenVars, lastSpotifyData, connecting,
                   readyListener, discordVars, storedMessageId, notH>>

\* /spotifystatus is answered by the status endpoint and replies
H_CommandReplied(s) ==
    /\ variant = "H" /\ handler[s].pc = "status"
    /\ handler[s].kind # "cycle"
    /\ H_Throw(s)
    /\ UNCHANGED <<variant, now, tokenVars, lastSpotifyData, connecting,
                   readyListener, discordVars, storedMessageId, notH>>

\* time passes; someone deletes a message of the channel
H_Tick == variant = "H" /\ Tick
H_DeleteMessage == variant = "H" /\ DeleteMessage

NextH ==
    \/ H_Tick
    \/ H_DeleteMessage
    \/ H_Ready
    \/ \E s \in Slots : H_TimerFires(s)
    \/ \E s \in Slots, k \in {"spotifystatus", "control"} : H_Command(s, k)
    \/ \E s \in Slots : H_SendSpotify(s)
    \/ \E s \in Slots, e \in ExpiresInValues : H_RefreshOk(s, e)
    \/ \E s \in Slots : H_RefreshRejected(s)
    \/ \E s \in Slots, r \in StatusAnswers : H_CycleStatus(s, r)
    \/ \E s \in Slots, found \in BOOLEAN : H_MsgFetched(s, found)
    \/ \E s \in Slots, ok \in BOOLEAN : H_MsgEdited(s, ok)
    \/ \E s \in Slots, ok \in BOOLEAN : H_MsgSent(s, ok)
    \/ \E s \in Slots : H_CommandReplied(s)
    \/ \E s \in Slots, r \in H_SkipAnswers : H_SkipAnswered(s, r)
    \/ \E s \in Slots, ok \in BOOLEAN : H_SkipReplied(s, ok)

SpecH == InitH /\ [][NextH]_vars

\* C27: a cycle whose status fetch failed (a network error, a timeout, a
\* response that is not ok, a rejected token refresh) does not touch the
\* message: no such cycle goes on to edit it, so the idle rendering never
\* replaces what the message showed.
C27_TransientLeavesMessage ==
    \A s \in Slots :
        (handler[s].kind = "cycle" /\ handler[s].pc = "msgEdit")
          => handler[s].obs # "error"

\* C33: when the control call of /skip is answered with a status that is not
\* a success, the handler reports failure to the initiator; it reports
\* success only when the call succeeded.
C33_SkipFailureReported ==
    \A s \in Slots :
        (handler[s].pc = "reply" /\ handler[s].obs = "rejected")
          => handler[s].data = "failed"

\* C35: a cycle that overlaps with /sendspotify never overwrites
\* currentMessageId with the older id: when currentMessageId was replaced
\* while a cycle was in flight (only /sendspotify does that, one cycle runs
\* at a time), the end of the cycle does not set it back to an earlier
\* message, so that the later cycles edit the message the command created.
C35_NewerIdKept ==
    [][\A s \in Slots :
        ( /\ handler[s].kind = "cycle" /\ handler'[s].pc = "idle"
          /\ storedMessageId # handler[s].arg )
          => storedMessageId' >= storedMessageId ]_vars

====
